---- MODULE Spec2Model ----
(***************************************************************************)
(* Model of the Suno automation server (src/src/server.js and the modules  *)
(* concatenated into it): the HTTP handlers that start and stop browser    *)
(* runs, the SunoBot orchestrator, the completion poller and the artifact  *)
(* retriever of DownloadManager.                                           *)
(*                                                                         *)
(* JavaScript runs one handler at a time and yields only at an await, so   *)
(* every action below is the code between two awaits of one handler.       *)
(*                                                                         *)
(* Fault model: a step that drives the browser (launch, page setup, login, *)
(* createSong, the waits on the page, the downloads) may throw at any      *)
(* time, and always throws once the browser context has been closed.       *)
(* Timers (setTimeout) and the preset bookkeeping complete normally.       *)
(* bot.close() awaits context.close() and may reject like any other        *)
(* browser call; the context is then left as the call found it.            *)
(***************************************************************************)
EXTENDS Integers, Sequences, FiniteSets, TLC

\* ------------------------------------------------------------------ bounds
MaxRuns == 2        \* start requests being handled at the same time
MaxSongs == 2       \* largest numberOfSongs / numberOfRounds, first handler slot
MaxOtherSongs == 1  \* the same for the requests handled in the other slots
MaxStops == 1       \* POST /api/stop requests in one behaviour

Runs == 1..MaxRuns
NoBot == 0

VARIABLES
    isProcessing,   \* server.js:24  let isProcessing = false
    currentBot,     \* server.js:23  let currentBot = null (NoBot) or a run's bot
    run,            \* per start request: the handler's position and its SunoBot
    stop,           \* the POST /api/stop handler: position and requests so far
    wp,             \* one call of DownloadManager.waitForSongCompletion
    dl,             \* one call of DownloadManager.downloadBothSongs
    sc,             \* one call of SunoBot.createSong -> SongCreator.createSong
    lr,             \* one call of a selector-fallback routine
    settings,       \* the SettingsManager singleton: config.suno of config.json
    cs,             \* one call of DownloadManager.checkSongStatus
    gl,             \* one call of AuthManagerPersistent.loginWithGoogle
    fs,             \* one call of SongCreator.fillStyles
    creds,          \* the stored credentials and the routes that touch them
    presets         \* the StylePresetManager singleton

vars ==
    <<isProcessing, currentBot, run, stop, wp, dl, sc, lr, settings, cs, gl, fs, creds, presets>>

\* ------------------------------------------------------- SunoBot and runs
\* A start request that has not arrived yet.  The bot fields are those of
\* the SunoBot constructor: no auth manager, no browser context.
\*   kind, pc, n, i        the handler: which route, where it is, the loop
\*   authManager, ctx      SunoBot.authManager / AuthManagerPersistent.context
\*   stopf                 history: a stop was issued / answered during the run
\*   obs                   the run whose history below is recorded
\*   closeCalls            history: calls of bot.close()
\*   auth                  history: 'authenticated' emitted after a login that
\*                         succeeded ("ok") or failed ("bad")
\*   createCalls           history: calls of bot.createSong()
\*   successCount, createFails, otherFails
\*                         the counters of the batch runner (failCount split
\*                         by the step that threw); downloads of a round loop
\*   threwAt               history: the step that threw last
\*   gen                   the listing entry of the job submitted last
\*   launches, logins      history: calls of launchPersistentContext and of
\*                         AuthManagerPersistent.login
\*   loginTimedOut         history: waitForManualLogin ran into its timeout
\*   lastStatus            history: the status event broadcast last
\*   client                a connected page of the web client that has
\*                         handled the status events of the run so far
\*   title                 the title of the request, a sequence of characters
\*   supplied, fieldsOk    history: the numberOfRounds / numberOfSongs of the
\*                         request; its other fields passed validation
\*   http                  history: the status code of the response (0: none)
\*   waitMinutes           automateFullProcess: config.suno.maxWaitMinutes || 3
IdleRun ==
    [ kind |-> "none", pc |-> "idle", n |-> 0, i |-> 0,
      authManager |-> FALSE, ctx |-> "none", stopf |-> "none",
      obs |-> FALSE, closeCalls |-> 0, auth |-> "none",
      createCalls |-> 0, successCount |-> 0, createFails |-> 0,
      otherFails |-> 0, threwAt |-> "none", gen |-> "none",
      launches |-> 0, logins |-> 0, loginTimedOut |-> FALSE,
      lastStatus |-> "none", title |-> <<>>,
      supplied |-> [json |-> "absent", text |-> <<>>], fieldsOk |-> FALSE,
      http |-> 0, waitMinutes |-> 0,
      client |-> [isProcessing |-> FALSE, createBtn |-> "enabled"] ]

\* The history of a run is recorded only for the observed run.
Obs(rec, withHistory) == IF rec.obs THEN withHistory ELSE rec

\* progressSteps of the client's updateProgress: the percentage shown for a
\* status.
progressSteps ==
    [ status \in { "loading_config", "initializing_browser", "authenticating",
                   "authenticated", "creating_song", "song_created",
                   "waiting_for_generation", "waiting_for_completion",
                   "song_completed", "downloading", "download_complete",
                   "complete", "rendering_video", "generating_seo",
                   "uploading_youtube", "publish_complete", "publish_error" } |->
        CASE status = "loading_config" -> 5
          [] status = "initializing_browser" -> 10
          [] status = "authenticating" -> 20
          [] status = "authenticated" -> 30
          [] status \in {"creating_song", "rendering_video"} -> 40
          [] status \in {"song_created", "generating_seo"} -> 50
          [] status = "waiting_for_generation" -> 60
          [] status \in {"waiting_for_completion", "uploading_youtube"} -> 70
          [] status = "song_completed" -> 80
          [] status = "downloading" -> 90
          [] status = "download_complete" -> 95
          [] status \in {"complete", "publish_complete"} -> 100
          [] status = "publish_error" -> 0 ]

\* updateProgress(status) of the client: a status with a progress step
\* sets state.isProcessing = step.percent < 100 and shows the Stop button
\* in place of the Create button, or the reverse; any other status changes
\* nothing.
updateProgress(c, status) ==
    IF status \notin DOMAIN progressSteps THEN c
    ELSE IF progressSteps[status] < 100
    THEN [isProcessing |-> TRUE, createBtn |-> "hidden_disabled"]
    ELSE [isProcessing |-> FALSE, createBtn |-> "enabled"]

\* handleStatusUpdate(data) of the client: updateProgress, then the two
\* completion branches.
handleStatusUpdate(c, status) ==
    IF status \in {"complete", "publish_complete", "error", "failed", "stopped",
                   "publish_error"}
    THEN [isProcessing |-> FALSE, createBtn |-> "enabled"]
    ELSE updateProgress(c, status)

\* broadcastStatus({status, ...}), directly or through SunoBot.updateStatus;
\* the connected client handles the event.
Status(rec, status) ==
    Obs(rec, [rec EXCEPT !.lastStatus = status,
                         !.client = handleStatusUpdate(@, status)])

\* A handler that has returned frees its slot; the observed run keeps its
\* final state for inspection.
Returned(rec, final) == IF rec.obs THEN [rec EXCEPT !.pc = final] ELSE IdleRun

\* The handler of r has been accepted and has not finished its cleanup.
Active(r) ==
    run[r].pc \notin {"idle", "absent", "rejected", "usage", "done", "orphan"}

\* numberOfSongs / numberOfRounds of a request that passes validation.
SongCounts(r) == 1..(IF r = 1 THEN MaxSongs ELSE MaxOtherSongs)

\* A new request is handled in the first free handler slot.
NextFree(r) == run[r].pc = "idle" /\ \A q \in Runs : q < r => run[q].pc # "idle"


\* A run accepted while a stop request is being handled overlaps that stop.
Accepted(rec) ==
    Status(Obs(rec, [rec EXCEPT !.stopf = IF stop.pc = "closing"
                                           THEN "issued" ELSE "none"]),
           "loading_config")

\* ------------------------------------------------------ titles and files
\* Text is a sequence of one-character strings.
DecimalDigits == <<"0", "1", "2", "3", "4", "5", "6", "7", "8", "9">>

\* title of a create-song request: absent, or some text
RunTitles ==
    { <<>>,
      <<"T", "e", "s", "t">>,
      <<"M", "y", " ", " ", "S", "o", "n", "g">>,
      <<"A", "/", "B">> }

\* The title matters for the file names only, which are followed for the
\* observed request.
TitlesOf(rec) == IF rec.obs THEN RunTitles ELSE {<<>>}

UntitledSong == <<"U", "n", "t", "i", "t", "l", "e", "d", " ", "S", "o", "n", "g">>

InvalidFilenameChars == {"<", ">", ":", "\"", "/", "\\", "|", "?", "*"}
WhitespaceChars == {" ", "\t", "\n"}

\* .replace(/\s+/g, '_'): every run of whitespace becomes one underscore.
RECURSIVE CollapseWhitespace(_, _)
CollapseWhitespace(text, inRun) ==
    IF text = <<>> THEN <<>>
    ELSE IF Head(text) \in WhitespaceChars
    THEN (IF inRun THEN <<>> ELSE <<"_">>) \o CollapseWhitespace(Tail(text), TRUE)
    ELSE <<Head(text)>> \o CollapseWhitespace(Tail(text), FALSE)

\* utils sanitizeFilename: invalid characters become '-', whitespace runs
\* become '_', and the result is cut after 200 characters.
sanitizeFilename(filename) ==
    LET replaced == [k \in 1..Len(filename) |->
                        IF filename[k] \in InvalidFilenameChars THEN "-" ELSE filename[k]]
        collapsed == CollapseWhitespace(replaced, FALSE)
    IN  SubSeq(collapsed, 1, IF Len(collapsed) < 200 THEN Len(collapsed) ELSE 200)

\* new Date().toISOString().replace(/[:.]/g, '-').substring(0, 19), for
\* some instant
SampleTimestamp ==
    <<"2", "0", "2", "5", "-", "0", "1", "-", "0", "1", "T",
      "0", "0", "-", "0", "0", "-", "0", "0">>

\* downloadSingleSong: `${songTitle || 'suno-song'}-v${version}-${timestamp}.mp3`
FileName(songTitle, version) ==
    (IF songTitle = <<>> THEN <<"s", "u", "n", "o", "-", "s", "o", "n", "g">>
                         ELSE songTitle)
    \o <<"-", "v", DecimalDigits[version + 1], "-">> \o SampleTimestamp
    \o <<".", "m", "p", "3">>

\* downloadBothSongs returns the downloads of version 1 and version 2.
VariantsPerJob == 2

\* preset.name of the preset a batch request selects
PresetNames == { <<"L", "o", "f", "i">>, <<"A", "/", "B">> }

\* The preset name matters for the file names only, which are followed
\* for the observed request.
PresetNamesOf(rec) == IF rec.obs THEN PresetNames ELSE {<<>>}

\* batch loop: const songTitle = `${currentPreset.name} - Song ${i + 1}`,
\* handed as it is to bot.createSong, waitForCompletion, downloadBothSongs.
BatchSongTitle(name, i) ==
    name \o <<" ", "-", " ", "S", "o", "n", "g", " ", DecimalDigits[i + 1]>>

\* config.downloadPath, as path segments
DownloadDirectory == <<"downloads">>

\* The segments of a path text between the separators '/'.
RECURSIVE SplitPath(_, _)
SplitPath(text, segment) ==
    IF text = <<>> THEN <<segment>>
    ELSE IF Head(text) = "/" THEN <<segment>> \o SplitPath(Tail(text), <<>>)
    ELSE SplitPath(Tail(text), Append(segment, Head(text)))

\* path.join normalizes: empty and '.' segments vanish, '..' drops the
\* segment before it.
RECURSIVE NormalizePath(_, _)
NormalizePath(segments, done) ==
    IF segments = <<>> THEN done
    ELSE IF Head(segments) \in {<<>>, <<".">>} THEN NormalizePath(Tail(segments), done)
    ELSE IF Head(segments) = <<".", ".">> /\ done # <<>>
    THEN NormalizePath(Tail(segments), SubSeq(done, 1, Len(done) - 1))
    ELSE NormalizePath(Tail(segments), Append(done, Head(segments)))

\* downloadSingleSong: path.join(this.config.downloadPath, filename), the
\* directory as segments and the file name as the last segment.
DownloadPath(filename) ==
    NormalizePath(SplitPath(filename, <<>>), DownloadDirectory)

\* automateFullProcess: the files of one round, downloaded under
\* createResult.sanitizedTitle, and the count reported with 'complete'.
RoundFiles(rec) ==
    { FileName(sanitizeFilename(rec.title), v) : v \in 1..VariantsPerJob }

\* Mutant of TotalDownloadCount: the count of the last round only.
LastRoundDownloadCount(rec) == IF rec.successCount > 0 THEN VariantsPerJob ELSE 0

TotalDownloadCount(rec) == rec.successCount * VariantsPerJob

\* The paths a run has saved artifacts to: a batch downloads every song
\* under its songTitle, a create-song run every round under the sanitized
\* title.
SavedPaths(rec) ==
    IF rec.successCount = 0 THEN {}
    ELSE IF rec.kind = "batch"
    THEN { DownloadPath(FileName(BatchSongTitle(rec.title, i), v)) :
             i \in 1..rec.i, v \in 1..VariantsPerJob }
    ELSE { DownloadPath(f) : f \in RoundFiles(rec) }

\* ----------------------------------------------------- request validation
\* A JSON value of the request body: absent, a number, or a string.  text
\* is String(value).
Absent == [json |-> "absent", text |-> <<>>]

RECURSIVE Decimal(_)
Decimal(k) ==
    IF k < 0 THEN <<"-">> \o Decimal(0 - k)
    ELSE IF k < 10 THEN <<DecimalDigits[k + 1]>>
    ELSE Decimal(k \div 10) \o <<DecimalDigits[(k % 10) + 1]>>

NumberValue(k) == [json |-> "number", text |-> Decimal(k)]
StringValue(t) == [json |-> "string", text |-> t]

\* The values of numberOfRounds / numberOfSongs that clients send.
Supplied ==
    {Absent}
    \cup { NumberValue(k) : k \in {0 - 1, 0, 51} \cup (1..MaxSongs) }
    \cup { StringValue(Decimal(k)) : k \in {0, 51} \cup (1..MaxSongs) }
    \cup { StringValue(<<>>), StringValue(<<"a", "b", "c">>),
           StringValue(<<"1", ".", "5">>) }

\* Stands for the JavaScript NaN, which no text of Supplied parses to;
\* every comparison with NaN is false.
NaN == 0 - 1000000
Less(a, b) == a # NaN /\ b # NaN /\ a < b

IsDigit(c) == \E d \in 1..10 : DecimalDigits[d] = c
DigitValue(c) == (CHOOSE d \in 1..10 : DecimalDigits[d] = c) - 1

\* the longest prefix of text made of digits
RECURSIVE DigitPrefix(_)
DigitPrefix(text) ==
    IF text # <<>> /\ IsDigit(Head(text))
    THEN <<Head(text)>> \o DigitPrefix(Tail(text))
    ELSE <<>>

RECURSIVE DecimalValue(_)
DecimalValue(digits) ==
    IF digits = <<>> THEN 0
    ELSE 10 * DecimalValue(SubSeq(digits, 1, Len(digits) - 1))
         + DigitValue(digits[Len(digits)])

RECURSIVE SkipWhitespace(_)
SkipWhitespace(text) ==
    IF text # <<>> /\ Head(text) \in WhitespaceChars
    THEN SkipWhitespace(Tail(text)) ELSE text

\* parseInt(value): String(value) without leading whitespace, an optional
\* sign, then the leading digits; NaN when there is no digit.
parseInt(value) ==
    IF value.json = "absent" THEN NaN
    ELSE LET t == SkipWhitespace(value.text)
             negative == t # <<>> /\ Head(t) = "-"
             signed == t # <<>> /\ Head(t) \in {"-", "+"}
             digits == DigitPrefix(IF signed THEN Tail(t) ELSE t)
         IN  IF digits = <<>> THEN NaN
             ELSE IF negative THEN 0 - DecimalValue(digits)
             ELSE DecimalValue(digits)

\* !value
Falsy(value) ==
    \/ value.json = "absent"
    \/ value.json = "number" /\ value.text = <<"0">>
    \/ value.json = "string" /\ value.text = <<>>

\* POST /api/create-song: const rounds = parseInt(numberOfRounds) || 2
RoundsOf(value) ==
    LET p == parseInt(value) IN IF p = NaN \/ p = 0 THEN 2 ELSE p

\* if (rounds < 1 || rounds > 50) return 400, for either route
OutOfRange(count) == Less(count, 1) \/ Less(50, count)

\* The values a request handled in slot r supplies: those that are refused
\* and those that start a run of a length the slot takes.
CreateCounts(r) ==
    { v \in Supplied : OutOfRange(RoundsOf(v)) \/ RoundsOf(v) \in SongCounts(r) }

BatchCounts(r) ==
    { v \in Supplied : \/ Falsy(v)
                       \/ OutOfRange(parseInt(v))
                       \/ parseInt(v) \in SongCounts(r) \cup {NaN} }

\* The response to a start request: the status code and, for the observed
\* request, what was supplied.
Answered(rec, code, value, ok) ==
    Obs(rec, [rec EXCEPT !.http = code, !.supplied = value, !.fieldsOk = ok])

\* for (let i = 0; i < songsCount; i++) / for (round <= numberOfRounds)
LoopEnters(rec) == Less(rec.i, rec.n)

\* --------------------------------------------------------- authentication
AuthMethods == {"google", "password", "other"}
LoginOutcomes == {"success", "manual_success", "error", "manual_timeout"}

\* AuthManagerPersistent.waitForManualLogin: waits for the redirect; a
\* timeout of page.waitForURL is rethrown as 'Manual login timeout'.
waitForManualLogin(outcome) ==
    [ threw |-> outcome # "manual_success", success |-> outcome = "manual_success" ]

\* AuthManagerPersistent.loginWithGoogle: the scripted steps and the manual
\* wait all run inside one try block whose catch returns {success: false}.
loginWithGoogle(outcome) ==
    LET inner == IF outcome \in {"manual_success", "manual_timeout"}
                 THEN waitForManualLogin(outcome)
                 ELSE [ threw |-> outcome # "success", success |-> outcome = "success" ]
    IN  IF inner.threw THEN [ threw |-> FALSE, success |-> FALSE ] ELSE inner

\* AuthManagerPersistent.loginWithPassword: rethrows every error.
loginWithPassword(outcome) ==
    [ threw |-> outcome # "success", success |-> outcome = "success" ]

\* AuthManagerPersistent.checkIfLoggedIn: a failing navigation is caught
\* and reported as 'not logged in'.
checkIfLoggedIn(ctxOpen, loggedIn) == ctxOpen /\ loggedIn

\* AuthManagerPersistent.login.  With a closed context every page
\* operation of the chosen method fails.
AuthManagerLogin(ctxOpen, loggedIn, method, outcome) ==
    LET o == IF ctxOpen THEN outcome ELSE "error" IN
    IF checkIfLoggedIn(ctxOpen, loggedIn) THEN [ threw |-> FALSE, success |-> TRUE ]
    ELSE IF method = "google" THEN loginWithGoogle(o)
    ELSE IF method = "password" THEN loginWithPassword(o)
    ELSE [ threw |-> TRUE, success |-> FALSE ]

\* The manual wait of loginWithGoogle was entered and page.waitForURL gave
\* up after its 300000 ms.
ManualLoginTimedOut(ctxOpen, loggedIn, method, outcome) ==
    /\ ~checkIfLoggedIn(ctxOpen, loggedIn)
    /\ ctxOpen
    /\ method = "google"
    /\ outcome = "manual_timeout"

\* ------------------------------------------------------- orchestrator glue
\* SunoBot.close -> AuthManagerPersistent.close: closes the context when
\* there is an auth manager that holds one.
SunoBotClose(rec) ==
    LET c == [rec EXCEPT !.ctx = IF rec.authManager /\ @ = "open" THEN "closed" ELSE @]
    IN  Obs(c, [c EXCEPT !.closeCalls = @ + 1])

\* The bot of a handler that has ended stays alive for as long as
\* currentBot refers to it.
Release(f, cb) ==
    [ q \in Runs |-> IF f[q].pc = "orphan" /\ cb # q THEN IdleRun ELSE f[q] ]

After(r, rec, ip, cb) ==
    /\ run' = Release([run EXCEPT ![r] = rec], cb)
    /\ isProcessing' = ip
    /\ currentBot' = cb

\* Mutant of Finally: a cleanup that forgets bot.close().
FinallyWithoutClose(rec) == [ rec EXCEPT !.pc = "closing", !.gen = "none" ]

\* The finally block of the create-song and batch runners starts by
\* calling bot.close() and awaits it.
Finally(rec) == [ SunoBotClose(rec) EXCEPT !.pc = "closing", !.gen = "none" ]

\* for (...) body start: the next createSong call of the batch loop, or of
\* the round loop of automateFullProcess.
NextSong(rec) ==
    LET s == [rec EXCEPT !.i = @ + 1, !.pc = "create", !.gen = "none"]
    IN  Status(Obs(s, [s EXCEPT !.createCalls = @ + 1]), "creating_song")

\* An error that leaves initialize(), login() or, in a create-song run,
\* any step of automateFullProcess.
\*   test-auth:   catch { isProcessing = false; ... }
\*   create-song: catch { broadcast; await 30 s sleep } finally {...}
\*   batch:       outer catch { broadcast } finally { await bot.close() ...}
RunThrows(r, rec, where) ==
    LET t == Obs(rec, [rec EXCEPT !.threwAt = where]) IN
    IF rec.kind = "testauth"
    THEN After(r, Returned(Status(t, "auth_test_failed"), "done"), FALSE, currentBot)
    ELSE IF rec.kind = "create"
    THEN After(r, [Status(t, "error") EXCEPT !.pc = "errsleep"], isProcessing, currentBot)
    ELSE After(r, Finally(Status(t, "batch_error")), isProcessing, currentBot)

\* Mutant of BatchSongFailed: a failed song is followed by a new login.
BatchSongFailedRelogin(rec) ==
    IF rec.i < rec.n THEN [rec EXCEPT !.pc = "login"] ELSE Finally(rec)

\* Mutant of BatchSongFailed: the first failing song ends the batch.
BatchStopsAtFailure(rec) == Finally(rec)

\* The inner catch of the batch loop: count the failure and go on with the
\* next song; after the last song fall through to the finally block.
BatchSongFailed(rec) ==
    IF rec.i < rec.n THEN NextSong(rec) ELSE Finally(rec)

\* An error thrown by createSong, the wait or the download of one song.
StepThrows(r, rec, where) ==
    IF rec.kind = "batch"
    THEN LET t == Obs(rec, [rec EXCEPT !.threwAt = where,
                              !.createFails = IF where = "submit" THEN @ + 1 ELSE @,
                              !.otherFails = IF where = "submit" THEN @ ELSE @ + 1])
         IN  After(r, BatchSongFailed(Status(t, "batch_song_error")),
                   isProcessing, currentBot)
    ELSE RunThrows(r, rec, where)

\* ------------------------------------------------------- start requests
\* POST /api/test-auth up to the first await of bot.initialize().
TestAuthRequest(r) ==
    /\ NextFree(r)
    /\ IF isProcessing
       THEN After(r, Returned(Answered(run[r], 409, Absent, FALSE), "rejected"),
                  isProcessing, currentBot)
       ELSE After(r, Accepted([run[r] EXCEPT !.kind = "testauth", !.pc = "load"]),
                  TRUE, currentBot)
    /\ UNCHANGED <<stop, wp, dl, sc, lr, settings, cs, gl, fs, creds, presets>>

\* POST /api/create-song: check, isProcessing = true, and the async runner
\* up to the first await of bot.initialize().
CreateSongRequest(r) ==
    /\ NextFree(r)
    /\ IF isProcessing
       THEN After(r, Returned(Answered(run[r], 409, Absent, FALSE), "rejected"),
                  isProcessing, currentBot)
       ELSE \E numberOfRounds \in CreateCounts(r), style \in BOOLEAN,
               title \in TitlesOf(run[r]) :
              LET rounds == RoundsOf(numberOfRounds)
                  a == Answered(run[r], 200, numberOfRounds, style)
                  q == [a EXCEPT !.kind = "create", !.pc = "load", !.n = rounds]
                  t == IF title = <<>> THEN UntitledSong ELSE title
              IN  IF ~style \/ OutOfRange(rounds)
                  THEN After(r, Returned(Answered(run[r], 400, numberOfRounds, style),
                                         "rejected"),
                             isProcessing, currentBot)
                  ELSE After(r, Accepted(Obs(q, [q EXCEPT !.title = t])), TRUE, r)
    /\ UNCHANGED <<stop, wp, dl, sc, lr, settings, cs, gl, fs, creds, presets>>

\* POST /api/batch-create up to await stylePresetManager.incrementUsage().
BatchRequest(r) ==
    /\ NextFree(r)
    /\ IF isProcessing
       THEN After(r, Returned(Answered(run[r], 409, Absent, FALSE), "rejected"),
                  isProcessing, currentBot)
       ELSE \E numberOfSongs \in BatchCounts(r), stylePresetId \in BOOLEAN,
               preset \in BOOLEAN, name \in PresetNamesOf(run[r]) :
              LET songsCount == parseInt(numberOfSongs)
                  ok == stylePresetId /\ preset
                  code == IF ~stylePresetId \/ Falsy(numberOfSongs) THEN 400
                          ELSE IF ~preset THEN 404
                          ELSE IF OutOfRange(songsCount) THEN 400
                          ELSE 200
                  a == Answered(run[r], code, numberOfSongs, ok)
              IN  IF code # 200
                  THEN After(r, Returned(a, "rejected"), isProcessing, currentBot)
                  ELSE After(r, [Obs(a, [a EXCEPT !.title = name])
                                   EXCEPT !.kind = "batch", !.pc = "usage",
                                          !.n = songsCount],
                             isProcessing, currentBot)
    /\ UNCHANGED <<stop, wp, dl, sc, lr, settings, cs, gl, fs, creds, presets>>

\* POST /api/batch-create after incrementUsage: isProcessing = true and the
\* async runner up to the first await of bot.initialize().
BatchAccept(r) ==
    /\ run[r].pc = "usage"
    /\ After(r, Accepted([run[r] EXCEPT !.pc = "load"]), TRUE, r)
    /\ UNCHANGED <<stop, wp, dl, sc, lr, settings, cs, gl, fs, creds, presets>>

\* ---------------------------------------------------------- bot stepping
\* SunoBot.initialize: settings.load() resolved; the auth manager is
\* created and AuthManagerPersistent.initialize starts the launch.
BotLoad(r) ==
    /\ run[r].pc = "load"
    /\ LET l == Obs(run[r], [run[r] EXCEPT
                                !.waitMinutes = IF settings.maxWaitMinutes = 0
                                                THEN 3 ELSE settings.maxWaitMinutes])
       IN  After(r, [Status(l, "initializing_browser")
                       EXCEPT !.authManager = TRUE, !.pc = "launch"],
                 isProcessing, currentBot)
    /\ UNCHANGED <<stop, wp, dl, sc, lr, settings, cs, gl, fs, creds, presets>>

\* chromium.launchPersistentContext resolves (this.context is set) or throws.
BotLaunch(r) ==
    /\ run[r].pc = "launch"
    /\ \E ok \in BOOLEAN :
         LET l == Obs(run[r], [run[r] EXCEPT !.launches = @ + 1]) IN
         IF ok
         THEN After(r, [l EXCEPT !.ctx = "open", !.pc = "setup"],
                    isProcessing, currentBot)
         ELSE RunThrows(r, l, "init")
    /\ UNCHANGED <<stop, wp, dl, sc, lr, settings, cs, gl, fs, creds, presets>>

\* The rest of AuthManagerPersistent.initialize (page, init script) and of
\* SunoBot.initialize; then SunoBot.login starts.
BotSetup(r) ==
    /\ run[r].pc = "setup"
    /\ \E ok \in BOOLEAN :
         IF ok /\ run[r].ctx = "open"
         THEN After(r, [run[r] EXCEPT !.pc = "login"], isProcessing, currentBot)
         ELSE RunThrows(r, run[r], "init")
    /\ UNCHANGED <<stop, wp, dl, sc, lr, settings, cs, gl, fs, creds, presets>>

\* SunoBot.login: 'authenticated' is emitted whenever authManager.login()
\* returns; the caller then goes on (test-auth: await bot.close(); the
\* runners: the first createSong).
BotLogin(r) ==
    /\ run[r].pc = "login"
    /\ \E loggedIn \in BOOLEAN, method \in AuthMethods, outcome \in LoginOutcomes :
         LET res == AuthManagerLogin(run[r].ctx = "open", loggedIn, method, outcome)
             l   == Obs(run[r], [run[r] EXCEPT
                                   !.logins = @ + 1,
                                   !.loginTimedOut =
                                       @ \/ ManualLoginTimedOut(run[r].ctx = "open",
                                                                loggedIn, method, outcome)])
             a   == Status(Obs(l, [l EXCEPT !.auth = IF res.success THEN "ok" ELSE "bad"]),
                           "authenticated")
         IN  IF res.threw
             THEN RunThrows(r, Status(l, "auth_failed"), "login")
             ELSE IF run[r].kind = "testauth"
             THEN After(r, Finally(a), isProcessing, currentBot)
             ELSE IF LoopEnters(a)
             THEN After(r, NextSong(a), isProcessing, currentBot)
             ELSE After(r, Finally(a), isProcessing, currentBot)
    /\ UNCHANGED <<stop, wp, dl, sc, lr, settings, cs, gl, fs, creds, presets>>

\* SunoBot.createSong returns (the job is submitted and starts generating)
\* or throws.
CreateDone(r) ==
    /\ run[r].pc = "create"
    /\ \E ok \in BOOLEAN :
         IF ok /\ run[r].ctx = "open"
         THEN After(r, Status(Obs([run[r] EXCEPT !.pc = "wait"],
                                  [run[r] EXCEPT !.pc = "wait", !.gen = "generating"]),
                              IF run[r].kind = "batch"
                              THEN "waiting_for_completion"
                              ELSE "waiting_for_generation"),
                    isProcessing, currentBot)
         ELSE StepThrows(r, Status(run[r], "creation_failed"), "submit")
    /\ UNCHANGED <<stop, wp, dl, sc, lr, settings, cs, gl, fs, creds, presets>>

\* SunoBot.waitForCompletion (batch) and the wait of automateFullProcess
\* (create-song): page.waitForTimeout(waitTime) resolves, then the download
\* starts; the listing is not consulted.
WaitDone(r) ==
    /\ run[r].pc = "wait"
    /\ \E ok \in BOOLEAN :
         IF ok /\ run[r].ctx = "open"
         THEN After(r, [Status(run[r], "downloading") EXCEPT !.pc = "download"],
                    isProcessing, currentBot)
         ELSE StepThrows(r, IF run[r].kind = "batch"
                            THEN Status(run[r], "completion_timeout") ELSE run[r],
                         "wait")
    /\ UNCHANGED <<stop, wp, dl, sc, lr, settings, cs, gl, fs, creds, presets>>

\* The site finishes generating the submitted job: during the wait
\* ("complete") or only after the wait has elapsed ("late").
GenerationCompletes(r) ==
    /\ run[r].pc \in {"wait", "download"}
    /\ run[r].gen = "generating"
    /\ After(r, [run[r] EXCEPT !.gen = IF run[r].pc = "wait" THEN "complete" ELSE "late"],
             isProcessing, currentBot)
    /\ UNCHANGED <<stop, wp, dl, sc, lr, settings, cs, gl, fs, creds, presets>>

\* SunoBot.downloadBothSongs returns or throws.  On success the batch loop
\* counts the song and sleeps 10 s before the next one; the round loop goes
\* straight on; after the last song the finally block runs.
DownloadDone(r) ==
    /\ run[r].pc = "download"
    /\ \E ok \in BOOLEAN :
         IF ok /\ run[r].ctx = "open"
         THEN LET d == Status(Obs(run[r], [run[r] EXCEPT !.successCount = @ + 1]),
                              IF run[r].kind = "batch"
                              THEN "download_complete" ELSE "round_complete") IN
              IF d.i < d.n
              THEN IF d.kind = "batch"
                   THEN After(r, [Status(d, "batch_waiting") EXCEPT !.pc = "gap"],
                              isProcessing, currentBot)
                   ELSE After(r, NextSong(d), isProcessing, currentBot)
              ELSE After(r, Finally(IF d.kind = "batch" THEN d ELSE Status(d, "complete")),
                         isProcessing, currentBot)
         ELSE StepThrows(r, Status(run[r], "download_failed"), "download")
    /\ UNCHANGED <<stop, wp, dl, sc, lr, settings, cs, gl, fs, creds, presets>>

\* The 10 s delay between two songs of a batch has elapsed.
GapDone(r) ==
    /\ run[r].pc = "gap"
    /\ After(r, NextSong(run[r]), isProcessing, currentBot)
    /\ UNCHANGED <<stop, wp, dl, sc, lr, settings, cs, gl, fs, creds, presets>>

\* create-song: the 30 s debugging delay of the catch block has elapsed.
ErrSleepDone(r) ==
    /\ run[r].pc = "errsleep"
    /\ After(r, Finally(run[r]), isProcessing, currentBot)
    /\ UNCHANGED <<stop, wp, dl, sc, lr, settings, cs, gl, fs, creds, presets>>

\* await bot.close() rejects inside the finally block of a runner: the
\* error leaves the async function, the statements after the await are
\* skipped and the globals stay as they are.  The bot remains the value of
\* currentBot.
Orphaned(r, rec) ==
    IF rec.obs THEN [rec EXCEPT !.pc = "done"]
    ELSE IF currentBot = r
    THEN [IdleRun EXCEPT !.pc = "orphan", !.kind = rec.kind,
                         !.authManager = rec.authManager, !.ctx = rec.ctx]
    ELSE IdleRun

\* await bot.close() has settled.  Resolved: the rest of the cleanup,
\*   test-auth: isProcessing = false
\*   runners:   currentBot = null; isProcessing = false
\* Rejected: the catch of test-auth, or nothing more in a runner.
CloseDone(r) ==
    /\ run[r].pc = "closing"
    /\ \E resolved \in BOOLEAN :
         LET t == Obs(run[r], [run[r] EXCEPT !.threwAt = IF @ = "none"
                                                         THEN "close" ELSE @])
         IN  IF resolved
             THEN After(r, Returned(IF run[r].kind = "testauth"
                                    THEN Status(run[r], "auth_test_success")
                                    ELSE IF run[r].kind = "batch"
                                    THEN Status(run[r], "batch_complete")
                                    ELSE run[r], "done"),
                        FALSE, IF run[r].kind = "testauth" THEN currentBot ELSE NoBot)
             ELSE IF run[r].kind = "testauth"
             THEN After(r, Returned(Status(t, "auth_test_failed"), "done"),
                        FALSE, currentBot)
             ELSE After(r, Orphaned(r, t), isProcessing, currentBot)
    /\ UNCHANGED <<stop, wp, dl, sc, lr, settings, cs, gl, fs, creds, presets>>

\* ------------------------------------------------------------ POST /api/stop
MarkStop(f, flag) ==
    [ q \in Runs |-> IF /\ Active(q) \/ currentBot = q
                        /\ flag = "acked" \/ f[q].stopf = "none"
                     THEN LET s == Obs(f[q], [f[q] EXCEPT !.stopf = flag])
                          IN  IF flag = "acked" THEN Status(s, "stopped") ELSE s
                     ELSE f[q] ]

\* if (currentBot) { await currentBot.close(); ... }; without a bot the
\* handler finishes at once.  A close that rejects is answered with 500
\* by the catch, which resets nothing.
StopBegin ==
    /\ stop.pc = "idle"
    /\ stop.count < MaxStops
    /\ IF currentBot # NoBot
       THEN /\ \E resolved \in BOOLEAN :
                 IF resolved
                 THEN /\ run' = MarkStop([run EXCEPT ![currentBot] = SunoBotClose(@)],
                                         "issued")
                      /\ stop' = [pc |-> "closing", count |-> stop.count + 1]
                 ELSE /\ run' = MarkStop([run EXCEPT ![currentBot] =
                                            Obs(@, [@ EXCEPT !.closeCalls = @ + 1])],
                                         "issued")
                      /\ stop' = [stop EXCEPT !.count = @ + 1]
            /\ UNCHANGED <<isProcessing, currentBot>>
       ELSE /\ run' = MarkStop(run, "acked")
            /\ stop' = [stop EXCEPT !.count = @ + 1]
            /\ isProcessing' = FALSE
            /\ UNCHANGED currentBot
    /\ UNCHANGED <<wp, dl, sc, lr, settings, cs, gl, fs, creds, presets>>

\* currentBot = null; isProcessing = false; 'stopped'; res.json(success).
StopFinish ==
    /\ stop.pc = "closing"
    /\ run' = Release(MarkStop(run, "acked"), NoBot)
    /\ stop' = [stop EXCEPT !.pc = "idle"]
    /\ currentBot' = NoBot
    /\ isProcessing' = FALSE
    /\ UNCHANGED <<wp, dl, sc, lr, settings, cs, gl, fs, creds, presets>>

\* ------------------------------------------------------------ specification
IdlePoll == [ pc |-> "off" ]
IdleDownload == [ pc |-> "off" ]
IdleCreate == [ pc |-> "off" ]
IdleLocate == [ pc |-> "off" ]
IdleStatusCheck == [ pc |-> "off" ]
IdleGoogleLogin == [ pc |-> "off" ]
IdleFillStyles == [ pc |-> "off" ]
IdleCredentials == [ pc |-> "off" ]
IdlePresets == [ pc |-> "off" ]

\* DEFAULT_CONFIG.suno of settings.js: maxWaitMinutes 2, maxWaitTime
\* 120000 ms; saved is the history of the settings form (0: never saved).
DefaultSettings == [ maxWaitMinutes |-> 2, maxWaitTime |-> 120000, saved |-> 0 ]

\* The server after start-up: no request yet.
Init ==
    /\ isProcessing = FALSE
    /\ currentBot = NoBot
    /\ creds = IdleCredentials
    /\ presets = IdlePresets
    /\ run = [r \in Runs |-> IdleRun]
    /\ stop = [pc |-> "idle", count |-> 0]
    /\ settings = DefaultSettings
    /\ cs = IdleStatusCheck
    /\ gl = IdleGoogleLogin
    /\ fs = IdleFillStyles
    /\ wp = IdlePoll
    /\ dl = IdleDownload
    /\ sc = IdleCreate
    /\ lr = IdleLocate

\* The same server receiving one start request, whose history is recorded.
InitRun ==
    /\ isProcessing = FALSE
    /\ currentBot = NoBot
    /\ creds = IdleCredentials
    /\ presets = IdlePresets
    /\ run = [r \in Runs |-> IF r = 1 THEN [IdleRun EXCEPT !.obs = TRUE]
                                      ELSE [IdleRun EXCEPT !.pc = "absent"]]
    /\ stop = [pc |-> "idle", count |-> 0]
    /\ settings = DefaultSettings
    /\ cs = IdleStatusCheck
    /\ gl = IdleGoogleLogin
    /\ fs = IdleFillStyles
    /\ wp = IdlePoll
    /\ dl = IdleDownload
    /\ sc = IdleCreate
    /\ lr = IdleLocate

Next ==
    \/ \E r \in Runs : TestAuthRequest(r)
    \/ \E r \in Runs : CreateSongRequest(r)
    \/ \E r \in Runs : BatchRequest(r)
    \/ \E r \in Runs : BatchAccept(r)
    \/ \E r \in Runs : BotLoad(r)
    \/ \E r \in Runs : BotLaunch(r)
    \/ \E r \in Runs : BotSetup(r)
    \/ \E r \in Runs : BotLogin(r)
    \/ \E r \in Runs : CreateDone(r)
    \/ \E r \in Runs : WaitDone(r)
    \/ \E r \in Runs : DownloadDone(r)
    \/ \E r \in Runs : GapDone(r)
    \/ \E r \in Runs : ErrSleepDone(r)
    \/ \E r \in Runs : CloseDone(r)
    \/ StopBegin
    \/ StopFinish

\* The server and its clients.
Spec == Init /\ [][Next]_vars

\* ------------------------------------------------------------ settings
MaxWaitMinutes == 2     \* largest wait time entered in the settings form

\* Client saveSettings: the body sent to POST /api/settings.  The wait
\* time of the form goes into suno.maxWaitMinutes and suno.maxWaitTime.
ClientSettings(minutes) ==
    [ authMethod |-> "google",
      suno |-> [ maxWaitMinutes |-> minutes, maxWaitTime |-> minutes * 60 * 1000 ] ]

\* POST /api/settings: const { authMethod, credentials, downloadPath } =
\* req.body; only these keys are passed to settings.set, so config.suno
\* keeps its value.
PostSettings(config, body) ==
    [ maxWaitMinutes |-> config.maxWaitMinutes, maxWaitTime |-> config.maxWaitTime ]

\* The settings form is saved with a wait time of some minutes.
SaveSettings ==
    /\ \E minutes \in 1..MaxWaitMinutes :
         LET stored == PostSettings(settings, ClientSettings(minutes))
         IN  settings' = [ maxWaitMinutes |-> stored.maxWaitMinutes,
                           maxWaitTime |-> stored.maxWaitTime,
                           saved |-> minutes ]
    /\ UNCHANGED <<isProcessing, currentBot, run, stop, wp, dl, sc, lr, cs, gl, fs, creds, presets>>

\* One observed run, the clients, the settings form and the site that
\* generates the songs of the run.
NextRun ==
    \/ Next
    \/ \E r \in Runs : GenerationCompletes(r)
    \/ SaveSettings

SpecRun == InitRun /\ [][NextRun]_vars

\* Every await of a handler settles: the timers fire and the browser calls
\* resolve or reject within their timeouts, so a handler that can take its
\* next step takes it.  Requests of clients are under no such obligation.
RunStep ==
    \/ \E r \in Runs :
         \/ BatchAccept(r)
         \/ BotLoad(r)
         \/ BotLaunch(r)
         \/ BotSetup(r)
         \/ BotLogin(r)
         \/ CreateDone(r)
         \/ WaitDone(r)
         \/ DownloadDone(r)
         \/ GapDone(r)
         \/ ErrSleepDone(r)
         \/ CloseDone(r)
    \/ StopFinish

\* The observed request on a server whose handlers keep running.
SpecRunFair == InitRun /\ [][NextRun]_vars /\ WF_vars(RunStep)

\* ------------------------------ DownloadManager.waitForSongCompletion
\* Times are in seconds.
MaxWaitTime == 4        \* largest maxWait of a call
MaxPollInterval == 3    \* largest config.suno.pollInterval of a call
MaxNavTime == 1         \* longest navigation to the listing page
CaptchaMaxWait == 300   \* waitForCaptchaSolution(maxWait = 300000)
CaptchaPoll == 5        \* safeWaitForTimeout(5000) in waitForCaptchaSolution
StatusSettle == 3       \* page.waitForTimeout(3000) in checkSongStatus

\* DownloadManager.checkForCaptcha: a challenge marker is visible or the
\* page is on an error route.
checkForCaptcha(w) == w.marker \/ w.url = "error"

\* Mutant of PollCatch: every error is followed by a poll sleep.
PollCatchKeepsPolling(w, message) == [w EXCEPT !.pc = "catchsleep"]

\* The catch block of the polling loop: an error whose message contains
\* 'closed' or 'Target' is rethrown, any other error is followed by a
\* poll sleep and the next iteration.
PollCatch(w, message) ==
    IF message \in {"page_closed", "browser_closed"}
    THEN [w EXCEPT !.pc = "failed", !.error = message]
    ELSE [w EXCEPT !.pc = "catchsleep"]

\* while (Date.now() - startTime < maxWait), then the page.isClosed() and
\* CAPTCHA checks at the top of the loop body.
PollHead ==
    /\ wp.pc = "head"
    /\ wp' = IF wp.now >= wp.maxWait
             THEN [wp EXCEPT !.pc = "failed", !.error = "timed_out"]
             ELSE IF wp.closed THEN PollCatch(wp, "page_closed")
             ELSE IF checkForCaptcha(wp) THEN [wp EXCEPT !.pc = "captcha", !.cw = 0]
             ELSE [wp EXCEPT !.pc = "status"]
    /\ UNCHANGED <<isProcessing, currentBot, run, stop, dl, sc, lr, settings, cs, gl, fs, creds, presets>>

\* One iteration of DownloadManager.waitForCaptchaSolution: sleep 5 s,
\* look for the challenge again, accept a suno.com URL as solved; after
\* 5 minutes throw the CAPTCHA timeout into the polling loop.
PollCaptcha ==
    /\ wp.pc = "captcha"
    /\ wp' = IF wp.cw >= CaptchaMaxWait THEN PollCatch(wp, "captcha_timeout")
             ELSE IF wp.closed THEN PollCatch(wp, "browser_closed")
             ELSE LET t == [wp EXCEPT !.now = @ + CaptchaPoll, !.cw = @ + CaptchaPoll]
                  IN  IF ~checkForCaptcha(t) \/ t.url = "suno"
                      THEN [t EXCEPT !.pc = "status"]
                      ELSE t
    /\ UNCHANGED <<isProcessing, currentBot, run, stop, dl, sc, lr, settings, cs, gl, fs, creds, presets>>

\* checkSongStatus: goes to the listing, waits 3 s and classifies the top
\* entry; every error inside is swallowed and reported as 'not complete'.
PollStatus ==
    /\ wp.pc = "status"
    /\ \/ wp' = [wp EXCEPT !.pc = "sleep"]
       \/ /\ ~wp.closed
          /\ \E nav \in 0..MaxNavTime :
               LET t == [wp EXCEPT !.now = @ + nav + StatusSettle]
               IN  wp' = IF wp.listing = "complete"
                         THEN [t EXCEPT !.pc = "completed"]
                         ELSE [t EXCEPT !.pc = "sleep"]
    /\ UNCHANGED <<isProcessing, currentBot, run, stop, dl, sc, lr, settings, cs, gl, fs, creds, presets>>

\* safeWaitForTimeout(pollInterval) at the end of an iteration.
PollSleep ==
    /\ wp.pc = "sleep"
    /\ wp' = IF wp.closed THEN PollCatch(wp, "browser_closed")
             ELSE [wp EXCEPT !.now = @ + wp.pollInterval, !.pc = "head"]
    /\ UNCHANGED <<isProcessing, currentBot, run, stop, dl, sc, lr, settings, cs, gl, fs, creds, presets>>

\* safeWaitForTimeout(pollInterval) inside the catch block; a failure here
\* becomes 'Browser connection lost'.
PollCatchSleep ==
    /\ wp.pc = "catchsleep"
    /\ wp' = IF wp.closed THEN [wp EXCEPT !.pc = "failed", !.error = "connection_lost"]
             ELSE [wp EXCEPT !.now = @ + wp.pollInterval, !.pc = "head"]
    /\ UNCHANGED <<isProcessing, currentBot, run, stop, dl, sc, lr, settings, cs, gl, fs, creds, presets>>

PollRunning == wp.pc \in {"head", "captcha", "status", "sleep", "catchsleep"}

\* The environment of the poller: the site finishes the job, shows or
\* drops a challenge, moves the page to another URL; the window is closed.
PollEnvironment ==
    /\ PollRunning
    /\ \/ wp.listing = "generating" /\ wp' = [wp EXCEPT !.listing = "complete"]
       \/ wp' = [wp EXCEPT !.marker = ~@]
       \/ \E u \in {"suno", "error", "other"} : u # wp.url /\ wp' = [wp EXCEPT !.url = u]
       \/ ~wp.closed /\ wp' = [wp EXCEPT !.closed = TRUE]
    /\ UNCHANGED <<isProcessing, currentBot, run, stop, dl, sc, lr, settings, cs, gl, fs, creds, presets>>

\* A call waitForSongCompletion(songTitle, maxWait) on an open page.
InitPoll ==
    /\ isProcessing = FALSE
    /\ currentBot = NoBot
    /\ creds = IdleCredentials
    /\ presets = IdlePresets
    /\ run = [r \in Runs |-> IdleRun]
    /\ stop = [pc |-> "idle", count |-> 0]
    /\ settings = DefaultSettings
    /\ cs = IdleStatusCheck
    /\ gl = IdleGoogleLogin
    /\ fs = IdleFillStyles
    /\ dl = IdleDownload
    /\ sc = IdleCreate
    /\ lr = IdleLocate
    /\ \E m \in 1..MaxWaitTime, p \in 1..MaxPollInterval :
         wp = [ pc |-> "head", now |-> 0, maxWait |-> m, pollInterval |-> p,
                cw |-> 0, closed |-> FALSE, marker |-> FALSE, url |-> "suno",
                listing |-> "generating", error |-> "none" ]

NextPoll ==
    \/ PollHead
    \/ PollCaptcha
    \/ PollStatus
    \/ PollSleep
    \/ PollCatchSleep
    \/ PollEnvironment

SpecPoll == InitPoll /\ [][NextPoll]_vars

\* ---------------------------------- DownloadManager.downloadBothSongs
MaxVisible == 2         \* most visible song rows on the listing page
MaxFileSize == 2        \* largest size of a saved file, in bytes
Titles == {"Test", "Lofi - Song 1", "Rock/Pop - Song 1"}

\* The end of downloadSingleSong on a file that cannot be accepted.
DownloadThrows(d, message) == [d EXCEPT !.pc = "threw", !.error = message]

\* Mutant of VerifySaved: the saved file is returned without looking at
\* its size.
VerifySavedAnySize(d) ==
    [d EXCEPT !.pc = "verified",
              !.downloads = Append(@, [version |-> d.version, size |-> d.size])]

\* downloadSingleSong after download.saveAs: fs.stat, the empty-file check
\* and the returned {success, path, size, filename}; downloadBothSongs
\* pushes the returned record.
VerifySaved(d) ==
    IF d.size = 0
    THEN DownloadThrows(d, "file_empty")
    ELSE [d EXCEPT !.pc = "verified",
                   !.downloads = Append(@, [version |-> d.version, size |-> d.size])]

\* downloadSingleSong(songTitle, version, songIndex), step 1: open the
\* listing and take the visible song row at songIndex.
DownloadLocate ==
    /\ dl.pc = "locate"
    /\ \E navOk \in BOOLEAN, visible \in 0..MaxVisible :
         dl' = IF ~navOk THEN DownloadThrows(dl, "navigation")
               ELSE IF visible <= dl.songIndex THEN DownloadThrows(dl, "song_not_found")
               ELSE [dl EXCEPT !.pc = "menu"]
    /\ UNCHANGED <<isProcessing, currentBot, run, stop, wp, sc, lr, settings, cs, gl, fs, creds, presets>>

\* steps 2-5: hover, find and open the row menu and the Download submenu.
DownloadOpenMenu ==
    /\ dl.pc = "menu"
    /\ \E found \in BOOLEAN :
         dl' = IF found THEN [dl EXCEPT !.pc = "trigger"]
               ELSE DownloadThrows(dl, "menu_button_not_found")
    /\ UNCHANGED <<isProcessing, currentBot, run, stop, wp, sc, lr, settings, cs, gl, fs, creds, presets>>

\* step 6: Enter on the first submenu item, else an explicit click on
\* 'MP3 Audio'; then download.saveAs writes the file.
DownloadTrigger ==
    /\ dl.pc = "trigger"
    /\ \E via \in {"enter", "click", "none"}, bytes \in 0..MaxFileSize :
         dl' = IF via = "none" THEN DownloadThrows(dl, "failed_to_download")
               ELSE [dl EXCEPT !.pc = "saved", !.size = bytes,
                               !.files = Append(@, bytes)]
    /\ UNCHANGED <<isProcessing, currentBot, run, stop, wp, sc, lr, settings, cs, gl, fs, creds, presets>>

\* the verification of the saved file
DownloadVerify ==
    /\ dl.pc = "saved"
    /\ dl' = VerifySaved(dl)
    /\ UNCHANGED <<isProcessing, currentBot, run, stop, wp, sc, lr, settings, cs, gl, fs, creds, presets>>

DownloadDelay == 3      \* page.waitForTimeout(3000) between the versions, seconds

\* Mutant of StartSecondVersion: version 2 starts without the delay.
StartSecondVersionAtOnce(d) ==
    [d EXCEPT !.pc = "locate", !.version = 2, !.songIndex = 1,
              !.attempts = Append(@, 2)]

\* downloadBothSongs: the 3 s wait has elapsed and
\* downloadSingleSong(songTitle, 2, 1) starts.
StartSecondVersion(d) ==
    [d EXCEPT !.pc = "locate", !.version = 2, !.songIndex = 1,
              !.attempts = Append(@, 2), !.gap = @ + DownloadDelay]

\* downloadBothSongs after a version has been returned: after version 1
\* wait 3 s and start version 2 at row 1; after version 2 return
\* {success, downloads, count}.
DownloadNext ==
    /\ dl.pc = "verified"
    /\ IF dl.version = 1
       THEN \E ok \in BOOLEAN :
              dl' = IF ok THEN StartSecondVersion(dl)
                    ELSE DownloadThrows(dl, "page_closed")
       ELSE dl' = [dl EXCEPT !.pc = "returned", !.count = Len(dl.downloads)]
    /\ UNCHANGED <<isProcessing, currentBot, run, stop, wp, sc, lr, settings, cs, gl, fs, creds, presets>>

\* A call downloadBothSongs(songTitle): downloads = [] and the first
\* downloadSingleSong(songTitle, 1, 0).
InitDownload ==
    /\ isProcessing = FALSE
    /\ currentBot = NoBot
    /\ creds = IdleCredentials
    /\ presets = IdlePresets
    /\ run = [r \in Runs |-> IdleRun]
    /\ stop = [pc |-> "idle", count |-> 0]
    /\ settings = DefaultSettings
    /\ cs = IdleStatusCheck
    /\ gl = IdleGoogleLogin
    /\ fs = IdleFillStyles
    /\ wp = IdlePoll
    /\ sc = IdleCreate
    /\ lr = IdleLocate
    /\ \E t \in Titles :
         dl = [ pc |-> "locate", title |-> t, version |-> 1, songIndex |-> 0,
                size |-> 0, downloads |-> <<>>, files |-> <<>>, count |-> 0,
                error |-> "none", attempts |-> <<1>>, gap |-> 0 ]

NextDownload ==
    \/ DownloadLocate
    \/ DownloadOpenMenu
    \/ DownloadTrigger
    \/ DownloadVerify
    \/ DownloadNext

SpecDownload == InitDownload /\ [][NextDownload]_vars

\* -------------------- SunoBot.createSong -> SongCreator.createSong
\* Times are in seconds.
CreateCaptchaMaxWait == 300   \* SongCreator.waitForCaptchaSolution(maxWait = 300000)
CreateCaptchaPoll == 5        \* page.waitForTimeout(5000) in that loop

\* captchaIndicators of checkForPostCreateIssues, in order:
\*   1 iframe[src*="recaptcha"]  2 iframe[src*="captcha"]
\*   3 .g-recaptcha              4 #captcha
Indicators == 1..4

\* What a challenge makes visible: nothing, a reCAPTCHA frame (its src
\* also contains "captcha"), another CAPTCHA frame, a .g-recaptcha box, a
\* #captcha element.
ChallengeKinds == { {}, {1, 2}, {2}, {3}, {4} }

\* SunoBot.createSong, catch block: every error of SongCreator.createSong
\* is reported with the status 'creation_failed' and rethrown.
CreationStatus(message) == "creation_failed"

CreateThrows(s, message) ==
    [s EXCEPT !.pc = "threw", !.error = message, !.status = CreationStatus(message)]

\* clickCreate returns true, SongCreator.createSong returns {success: true}
\* and SunoBot.createSong emits 'song_created'.
CreateReturns(s) == [s EXCEPT !.pc = "returned", !.status = "song_created"]

\* for (const indicator of captchaIndicators): the indicator after k, or
\* the end of checkForPostCreateIssues.
NextIndicator(s) ==
    IF s.k < 4 THEN [s EXCEPT !.pc = "indicator", !.k = @ + 1] ELSE CreateReturns(s)

\* Mutant of CaptchaSolved: the form is submitted again after the challenge.
CaptchaSolvedResubmits(s) == CreateReturns([s EXCEPT !.clicks = @ + 1])

\* waitForCaptchaSolution returned true: checkForPostCreateIssues returns.
CaptchaSolved(s) == CreateReturns(s)

\* Mutant of StyleNotFound: a missing style field is tolerated.
StyleNotFoundTolerated(s) == [s EXCEPT !.pc = IF s.title THEN "title" ELSE "click"]

\* fillStyles: throw new Error('Could not find style input field ...').
StyleNotFound(s) == CreateThrows(s, "style_not_found")

\* navigateToCreate and the first humanScroll.
CreateNavigate ==
    /\ sc.pc = "navigate"
    /\ \E ok \in BOOLEAN :
         sc' = IF ok /\ ~sc.closed THEN [sc EXCEPT !.pc = "custom"]
               ELSE CreateThrows(sc, "navigation")
    /\ UNCHANGED <<isProcessing, currentBot, run, stop, wp, dl, lr, settings, cs, gl, fs, creds, presets>>

\* selectCustomMode (clicks Custom when it is visible, swallows every
\* error), the pause after it, then the branch on lyrics.
CreateCustomMode ==
    /\ sc.pc = "custom"
    /\ \E found \in BOOLEAN :
         LET c == IF found /\ ~sc.closed
                  THEN [sc EXCEPT !.touched = @ \cup {"custom"}] ELSE sc
         IN  sc' = IF sc.closed THEN CreateThrows(c, "page_closed")
                   ELSE [c EXCEPT !.pc = IF sc.lyrics THEN "lyrics" ELSE "styles"]
    /\ UNCHANGED <<isProcessing, currentBot, run, stop, wp, dl, lr, settings, cs, gl, fs, creds, presets>>

\* fillLyrics and the pause after it.
CreateLyrics ==
    /\ sc.pc = "lyrics"
    /\ \E found \in BOOLEAN, typed \in BOOLEAN :
         sc' = IF ~found \/ sc.closed THEN CreateThrows(sc, "lyrics_not_found")
               ELSE LET t == [sc EXCEPT !.touched = @ \cup {"lyrics"}]
                    IN  IF typed THEN [t EXCEPT !.pc = "styles"]
                        ELSE CreateThrows(t, "type_failed")
    /\ UNCHANGED <<isProcessing, currentBot, run, stop, wp, dl, lr, settings, cs, gl, fs, creds, presets>>

\* fillStyles, then the branch on title.
CreateStyles ==
    /\ sc.pc = "styles"
    /\ \E found \in BOOLEAN, typed \in BOOLEAN :
         sc' = IF sc.closed THEN CreateThrows(sc, "page_closed")
               ELSE IF ~found THEN StyleNotFound(sc)
               ELSE LET t == [sc EXCEPT !.touched = @ \cup {"style"}]
                    IN  IF typed
                        THEN [t EXCEPT !.styleFilled = TRUE,
                                       !.pc = IF sc.title THEN "title" ELSE "click"]
                        ELSE CreateThrows(t, "type_failed")
    /\ UNCHANGED <<isProcessing, currentBot, run, stop, wp, dl, lr, settings, cs, gl, fs, creds, presets>>

\* if (title): the pause, then addSongTitle, which catches every error.
CreateTitle ==
    /\ sc.pc = "title"
    /\ \E found \in BOOLEAN, typed \in BOOLEAN :
         sc' = IF sc.closed THEN CreateThrows(sc, "page_closed")
               ELSE IF ~found THEN [sc EXCEPT !.titleFailed = TRUE, !.pc = "click"]
               ELSE [sc EXCEPT !.touched = @ \cup {"title"},
                               !.titleFailed = ~typed, !.pc = "click"]
    /\ UNCHANGED <<isProcessing, currentBot, run, stop, wp, dl, lr, settings, cs, gl, fs, creds, presets>>

\* The second humanScroll and clickCreate up to the click: without an
\* enabled button 'Could not find enabled Create button'; after the click
\* the site stays on the create page, moves to an error route or to a
\* challenge page, and may show a challenge.
CreateClick ==
    /\ sc.pc = "click"
    /\ \E found \in BOOLEAN, u \in {"create", "error", "other"}, c \in ChallengeKinds :
         sc' = IF sc.closed THEN CreateThrows(sc, "page_closed")
               ELSE IF ~found THEN CreateThrows(sc, "create_not_found")
               ELSE [sc EXCEPT !.clicks = @ + 1, !.url = u, !.challenge = c,
                               !.pc = "postcheck"]
    /\ UNCHANGED <<isProcessing, currentBot, run, stop, wp, dl, lr, settings, cs, gl, fs, creds, presets>>

\* checkForPostCreateIssues: the URL test, then the first indicator.
CreatePostCheck ==
    /\ sc.pc = "postcheck"
    /\ sc' = IF sc.url = "error" THEN CreateThrows(sc, "rate_limited")
             ELSE [sc EXCEPT !.pc = "indicator", !.k = 1]
    /\ UNCHANGED <<isProcessing, currentBot, run, stop, wp, dl, lr, settings, cs, gl, fs, creds, presets>>

\* One indicator of the loop: a visible one starts waitForCaptchaSolution,
\* an invisible one, or an error of isVisible, moves to the next.
CreateIndicator ==
    /\ sc.pc = "indicator"
    /\ sc' = IF ~sc.closed /\ sc.k \in sc.challenge
             THEN [sc EXCEPT !.pc = "captchawait", !.cw = 0, !.detected = TRUE]
             ELSE NextIndicator(sc)
    /\ UNCHANGED <<isProcessing, currentBot, run, stop, wp, dl, lr, settings, cs, gl, fs, creds, presets>>

\* One iteration of SongCreator.waitForCaptchaSolution.  Its errors (the
\* timeout after 5 minutes, a closed page) are thrown into the try block
\* of the indicator loop, whose catch goes on with the next indicator.
CreateCaptchaWait ==
    /\ sc.pc = "captchawait"
    /\ sc' = IF sc.cw >= CreateCaptchaMaxWait
             THEN NextIndicator([sc EXCEPT !.timedOut = TRUE])
             ELSE IF sc.closed THEN NextIndicator(sc)
             ELSE LET t == [sc EXCEPT !.cw = @ + CreateCaptchaPoll]
                  IN  IF t.challenge = {} \/ t.url = "create"
                      THEN CaptchaSolved(t)
                      ELSE t
    /\ UNCHANGED <<isProcessing, currentBot, run, stop, wp, dl, lr, settings, cs, gl, fs, creds, presets>>

CreateRunning == sc.pc \notin {"off", "returned", "threw"}

\* The environment of the call: the human solves the challenge, the
\* challenge page redirects back to the create page, the window is closed.
CreateEnvironment ==
    /\ CreateRunning
    /\ \/ /\ sc.pc = "captchawait"
          /\ sc.challenge # {}
          /\ sc' = [sc EXCEPT !.challenge = {}, !.solved = TRUE]
       \/ /\ sc.pc = "captchawait"
          /\ sc.url = "other"
          /\ sc' = [sc EXCEPT !.url = "create"]
       \/ /\ ~sc.closed
          /\ sc' = [sc EXCEPT !.closed = TRUE]
    /\ UNCHANGED <<isProcessing, currentBot, run, stop, wp, dl, lr, settings, cs, gl, fs, creds, presets>>

\* A call createSong({title, lyrics, style}) on an open page; SunoBot has
\* emitted 'creating_song'.
InitCreate ==
    /\ isProcessing = FALSE
    /\ currentBot = NoBot
    /\ creds = IdleCredentials
    /\ presets = IdlePresets
    /\ run = [r \in Runs |-> IdleRun]
    /\ stop = [pc |-> "idle", count |-> 0]
    /\ settings = DefaultSettings
    /\ cs = IdleStatusCheck
    /\ gl = IdleGoogleLogin
    /\ fs = IdleFillStyles
    /\ wp = IdlePoll
    /\ dl = IdleDownload
    /\ lr = IdleLocate
    /\ \E l \in BOOLEAN, t \in BOOLEAN :
         sc = [ pc |-> "navigate", lyrics |-> l, title |-> t, closed |-> FALSE,
                url |-> "create", challenge |-> {}, k |-> 0, cw |-> 0,
                clicks |-> 0, touched |-> {}, styleFilled |-> FALSE,
                titleFailed |-> FALSE, detected |-> FALSE, solved |-> FALSE,
                timedOut |-> FALSE, error |-> "none", status |-> "creating_song" ]

NextCreate ==
    \/ CreateNavigate
    \/ CreateCustomMode
    \/ CreateLyrics
    \/ CreateStyles
    \/ CreateTitle
    \/ CreateClick
    \/ CreatePostCheck
    \/ CreateIndicator
    \/ CreateCaptchaWait
    \/ CreateEnvironment

SpecCreate == InitCreate /\ [][NextCreate]_vars

\* ------------------------------------------ selector-fallback routines
Routines ==
    {"fillEmail", "fillPassword", "clickNextButton", "selectCustomMode",
     "fillLyrics", "fillStyles", "addSongTitle", "clickCreate"}

\* the length of the routine's list of candidate selectors
SelectorCount(routine) ==
    CASE routine = "fillEmail" -> 7
      [] routine = "fillPassword" -> 8
      [] routine = "clickNextButton" -> 9
      [] routine = "selectCustomMode" -> 4
      [] routine = "fillLyrics" -> 5
      [] routine = "fillStyles" -> 5
      [] routine = "addSongTitle" -> 4
      [] routine = "clickCreate" -> 6

\* fillEmail, fillPassword and clickNextButton act on the element inside
\* the loop, under a try whose catch goes on with the next selector; the
\* other routines pick an element in the loop and act on it afterwards.
ActsInLoop(routine) == routine \in {"fillEmail", "fillPassword", "clickNextButton"}

\* fillStyles and clickCreate start with page.waitForTimeout.
WaitsFirst(routine) == routine \in {"fillStyles", "clickCreate"}

\* selectCustomMode and addSongTitle catch every error and log it.
Optional(routine) == routine \in {"selectCustomMode", "addSongTitle"}

\* the routines that click their element; the others click and type
Clicks(routine) == routine \in {"clickNextButton", "selectCustomMode", "clickCreate"}

\* clickNextButton and clickCreate also test that the button is enabled.
ChecksEnabled(routine) == routine \in {"clickNextButton", "clickCreate"}

\* isVisible (and, for these two, the enabled test) of candidate k; on a
\* closed page the call fails and counts as not visible.
Matches(l, k) ==
    /\ ~l.closed
    /\ k \in l.visible
    /\ ChecksEnabled(l.routine) => k \notin l.disabled

LocateEnds(l, outcome) == [l EXCEPT !.pc = "ended", !.outcome = outcome]

\* The element of candidate k is clicked, and typed into by the fill
\* routines; used collects the candidates whose element was acted on.
Touch(l, k) ==
    [l EXCEPT !.clicked = TRUE, !.typed = @ \/ ~Clicks(l.routine), !.used = @ \cup {k}]

\* The not-found outcome of a routine whose page is alive: the tolerated
\* absence of the optional roles, the 'Could not find ...' error of the
\* others.
NotFound(l) ==
    LocateEnds(l, IF Optional(l.routine) THEN "absent_tolerated" ELSE "not_found_error")

\* An error other than the routine's own: logged by the optional roles,
\* rethrown by the others.
OtherError(l) ==
    LocateEnds(l, IF Optional(l.routine) THEN "error_swallowed" ELSE "other_error")

\* The start of the routine: the initial wait of fillStyles / clickCreate,
\* and in addSongTitle the click on 'Add a song title' (candidate 4) when
\* that button is visible.
LocateEnter ==
    /\ lr.pc = "enter"
    /\ lr' = IF WaitsFirst(lr.routine) /\ lr.closed THEN OtherError(lr)
             ELSE IF lr.routine = "addSongTitle" /\ Matches(lr, 4)
             THEN [lr EXCEPT !.pc = "scan", !.idx = 1, !.clicked = TRUE]
             ELSE [lr EXCEPT !.pc = "scan", !.idx = 1]
    /\ UNCHANGED <<isProcessing, currentBot, run, stop, wp, dl, sc, settings, cs, gl, fs, creds, presets>>

\* One candidate selector of the loop.
LocateScan ==
    /\ lr.pc = "scan"
    /\ LET next == IF lr.idx < SelectorCount(lr.routine)
                   THEN [lr EXCEPT !.idx = @ + 1]
                   ELSE IF ActsInLoop(lr.routine) THEN LocateEnds(lr, "not_found_error")
                   ELSE [lr EXCEPT !.pc = "act",
                                   !.chosen = IF lr.routine \in {"fillStyles", "clickCreate"}
                                              THEN 0 ELSE lr.idx]
       IN  IF ~Matches(lr, lr.idx) THEN lr' = next
           ELSE IF ActsInLoop(lr.routine)
           THEN \E ok \in BOOLEAN :
                  lr' = IF ok THEN LocateEnds(Touch(lr, lr.idx), "found")
                        ELSE [next EXCEPT !.clicked = TRUE, !.used = @ \cup {lr.idx}]
           ELSE lr' = [lr EXCEPT !.pc = "act", !.chosen = lr.idx]
    /\ UNCHANGED <<isProcessing, currentBot, run, stop, wp, dl, sc, settings, cs, gl, fs, creds, presets>>

\* After the loop: act on the chosen element if it is (still) visible;
\* otherwise the not-found branch, which in fillStyles first scans all
\* textareas and in clickCreate first lists the buttons of the page.
LocateAct ==
    /\ lr.pc = "act"
    /\ IF lr.chosen # 0 /\ Matches(lr, lr.chosen)
       THEN \E ok \in BOOLEAN :
              lr' = IF ok THEN LocateEnds(Touch(lr, lr.chosen), "found")
                    ELSE OtherError([lr EXCEPT !.clicked = TRUE, !.used = @ \cup {lr.chosen}])
       ELSE lr' = IF lr.routine \in {"fillStyles", "clickCreate"}
                  THEN [lr EXCEPT !.pc = "diagnose"]
                  ELSE NotFound(lr)
    /\ UNCHANGED <<isProcessing, currentBot, run, stop, wp, dl, sc, settings, cs, gl, fs, creds, presets>>

\* fillStyles: page.locator('textarea').all(); clickCreate:
\* page.locator('button').all().  Both reject on a closed page, and that
\* error is what the routine rethrows.
LocateDiagnose ==
    /\ lr.pc = "diagnose"
    /\ lr' = IF lr.closed THEN OtherError(lr) ELSE NotFound(lr)
    /\ UNCHANGED <<isProcessing, currentBot, run, stop, wp, dl, sc, settings, cs, gl, fs, creds, presets>>

\* The window is closed while the routine runs.
LocateClose ==
    /\ lr.pc \in {"enter", "scan", "act", "diagnose"}
    /\ ~lr.closed
    /\ lr' = [lr EXCEPT !.closed = TRUE]
    /\ UNCHANGED <<isProcessing, currentBot, run, stop, wp, dl, sc, settings, cs, gl, fs, creds, presets>>

\* A call of one routine on a page where the candidates of visible match
\* a visible element, those of disabled a disabled one.
InitLocate ==
    /\ isProcessing = FALSE
    /\ currentBot = NoBot
    /\ creds = IdleCredentials
    /\ presets = IdlePresets
    /\ run = [r \in Runs |-> IdleRun]
    /\ stop = [pc |-> "idle", count |-> 0]
    /\ settings = DefaultSettings
    /\ cs = IdleStatusCheck
    /\ gl = IdleGoogleLogin
    /\ fs = IdleFillStyles
    /\ wp = IdlePoll
    /\ dl = IdleDownload
    /\ sc = IdleCreate
    /\ \E routine \in Routines :
         \E v \in SUBSET (1..SelectorCount(routine)) :
           \E d \in SUBSET (IF ChecksEnabled(routine) THEN v ELSE {}) :
             lr = [ pc |-> "enter", routine |-> routine, visible |-> v,
                    disabled |-> d, idx |-> 0, chosen |-> 0, closed |-> FALSE,
                    clicked |-> FALSE, typed |-> FALSE, used |-> {},
                    outcome |-> "none" ]

NextLocate ==
    \/ LocateEnter
    \/ LocateScan
    \/ LocateAct
    \/ LocateDiagnose
    \/ LocateClose

SpecLocate == InitLocate /\ [][NextLocate]_vars

\* ------------------------------ DownloadManager.checkSongStatus
MaxEntries == 3     \* rows of the /me listing

ScanLimit == 10     \* for (let i = 0; i < Math.min(allSongs.length, 10); i++)

\* A row of the listing, most recent first: it shows a loading indicator,
\* or a completion indicator (Edit, Publish, a duration), or neither.
EntryStates == {"generating", "complete", "blank"}

Listings == UNION { [1..n -> EntryStates] : n \in 0..MaxEntries }

Positions(listing) == [i \in 1..Len(listing) |-> i]

\* containerSelectors, first selector that matches anything: the first
\* three select rows with an Edit button or a duration, i.e. completed
\* rows only, when the rows are built the way these selectors expect
\* (specific); the generic ones (article, song-card, song links) select
\* every row when the page has such elements (generic).
SelectContainers(listing, specific, generic) ==
    LET IsComplete(i) == listing[i] = "complete"
        completed == SelectSeq(Positions(listing), IsComplete)
    IN  IF specific /\ completed # <<>> THEN completed
        ELSE IF generic THEN Positions(listing)
        ELSE <<>>

Min(a, b) == IF a < b THEN a ELSE b

StatusReturns(c, result) == [c EXCEPT !.pc = "returned", !.result = result]

\* page.goto(/me) and the 3 s pause; every error is caught and reported
\* as 'not complete'.
StatusNavigate ==
    /\ cs.pc = "navigate"
    /\ \E ok \in BOOLEAN :
         cs' = IF ok /\ ~cs.closed THEN [cs EXCEPT !.pc = "containers"]
               ELSE StatusReturns(cs, FALSE)
    /\ UNCHANGED <<isProcessing, currentBot, run, stop, wp, dl, sc, lr, settings, gl, fs, creds, presets>>

\* The loop over containerSelectors; without containers return false.
StatusContainers ==
    /\ cs.pc = "containers"
    /\ \E specific \in BOOLEAN, generic \in BOOLEAN :
         LET allSongs == SelectContainers(cs.listing, specific, generic)
         IN  cs' = IF cs.closed \/ allSongs = <<>> THEN StatusReturns(cs, FALSE)
                   ELSE [cs EXCEPT !.pc = "scan", !.allSongs = allSongs, !.i = 1]
    /\ UNCHANGED <<isProcessing, currentBot, run, stop, wp, dl, sc, lr, settings, gl, fs, creds, presets>>

\* One iteration of the scan for the first row that is not generating and
\* has a completion indicator; a row that is generating, or has neither,
\* is passed over.
StatusScan ==
    /\ cs.pc = "scan"
    /\ cs' = IF cs.i > Min(Len(cs.allSongs), ScanLimit) THEN StatusReturns(cs, FALSE)
             ELSE IF ~cs.closed /\ cs.listing[cs.allSongs[cs.i]] = "complete"
             THEN [cs EXCEPT !.pc = "confirm", !.songIndex = cs.allSongs[cs.i]]
             ELSE [cs EXCEPT !.i = @ + 1]
    /\ UNCHANGED <<isProcessing, currentBot, run, stop, wp, dl, sc, lr, settings, gl, fs, creds, presets>>

\* completionIndicators of the chosen row: the first one found returns
\* true; on a closed page nothing is visible and the call returns false.
StatusConfirm ==
    /\ cs.pc = "confirm"
    /\ cs' = StatusReturns(cs, ~cs.closed /\ cs.listing[cs.songIndex] = "complete")
    /\ UNCHANGED <<isProcessing, currentBot, run, stop, wp, dl, sc, lr, settings, gl, fs, creds, presets>>

\* The browser window is closed during the call.
StatusClose ==
    /\ cs.pc \in {"navigate", "containers", "scan", "confirm"}
    /\ ~cs.closed
    /\ cs' = [cs EXCEPT !.closed = TRUE]
    /\ UNCHANGED <<isProcessing, currentBot, run, stop, wp, dl, sc, lr, settings, gl, fs, creds, presets>>

\* A call checkSongStatus(songTitle) on an open page; the parameter is not
\* read anywhere in the function.
InitStatus ==
    /\ isProcessing = FALSE
    /\ currentBot = NoBot
    /\ creds = IdleCredentials
    /\ presets = IdlePresets
    /\ run = [r \in Runs |-> IdleRun]
    /\ stop = [pc |-> "idle", count |-> 0]
    /\ settings = DefaultSettings
    /\ gl = IdleGoogleLogin
    /\ fs = IdleFillStyles
    /\ wp = IdlePoll
    /\ dl = IdleDownload
    /\ sc = IdleCreate
    /\ lr = IdleLocate
    /\ \E listing \in Listings :
         cs = [ pc |-> "navigate", listing |-> listing, allSongs |-> <<>>, i |-> 0,
                songIndex |-> 0, closed |-> FALSE, result |-> FALSE ]

NextStatus ==
    \/ StatusNavigate
    \/ StatusContainers
    \/ StatusScan
    \/ StatusConfirm
    \/ StatusClose

SpecStatus == InitStatus /\ [][NextStatus]_vars

\* ------------------------------ AuthManagerPersistent.loginWithGoogle
\* What Google shows after a Next / Sign In click: the next form, a 2FA
\* prompt (twoFAIndicators) or an automation warning (detectionPhrases).
Prompts == {"none", "2fa", "automation"}

\* check2FARequired: one of the twoFAIndicators is visible.
check2FARequired(g) == g.prompt = "2fa"

\* checkAutomationDetected: one of the detectionPhrases is visible.
checkAutomationDetected(g) == g.prompt = "automation"

\* logStep(stepNumber, message, status): the 'login_step' event handed to
\* the status callback.
logStep(g, stepNumber, status) ==
    [g EXCEPT !.step = [step |-> stepNumber, status |-> status]]

\* catch (error) { logStep('ERROR', ...); return { success: false, ... } }
GoogleFails(g) == [logStep(g, "ERROR", "ERROR") EXCEPT !.pc = "returned", !.success = FALSE]

\* logStep(n, '... manual ...', 'WARNING'); return await
\* this.waitForManualLogin()
GoogleManual(g, stepNumber) ==
    [logStep(g, stepNumber, "WARNING") EXCEPT !.pc = "manual", !.manual = TRUE]

\* Steps 1 to 3: open the site, click Sign In, click the Google button;
\* then the branch on the credentials.
GoogleOpen ==
    /\ gl.pc = "open"
    /\ \E ok \in BOOLEAN :
         gl' = IF ~ok \/ gl.closed THEN GoogleFails(gl)
               ELSE IF gl.email /\ gl.password
               THEN [logStep(gl, "4", "INFO") EXCEPT !.pc = "email"]
               ELSE GoogleManual(gl, "4")
    /\ UNCHANGED <<isProcessing, currentBot, run, stop, wp, dl, sc, lr, settings, cs, fs, creds, presets>>

\* Step 4: fillEmail.
GoogleEmail ==
    /\ gl.pc = "email"
    /\ \E ok \in BOOLEAN :
         gl' = IF ~ok \/ gl.closed THEN GoogleFails(gl)
               ELSE [logStep(gl, "5", "INFO") EXCEPT !.pc = "next"]
    /\ UNCHANGED <<isProcessing, currentBot, run, stop, wp, dl, sc, lr, settings, cs, fs, creds, presets>>

\* Step 5: clickNextButton and the 2 s pause; Google answers the email.
GoogleNext ==
    /\ gl.pc = "next"
    /\ \E ok \in BOOLEAN, p \in Prompts :
         gl' = IF ~ok \/ gl.closed THEN GoogleFails(gl)
               ELSE [logStep(gl, "6", "INFO") EXCEPT !.pc = "detect", !.prompt = p,
                                                     !.afterEmail = p]
    /\ UNCHANGED <<isProcessing, currentBot, run, stop, wp, dl, sc, lr, settings, cs, fs, creds, presets>>

\* Step 6: checkAutomationDetected, the only check after the email step.
GoogleDetect ==
    /\ gl.pc = "detect"
    /\ gl' = IF ~gl.closed /\ checkAutomationDetected(gl) THEN GoogleManual(gl, "6")
             ELSE [logStep(gl, "7", "INFO") EXCEPT !.pc = "password"]
    /\ UNCHANGED <<isProcessing, currentBot, run, stop, wp, dl, sc, lr, settings, cs, fs, creds, presets>>

\* Step 7: fillPassword, with whatever the page shows.
GooglePassword ==
    /\ gl.pc = "password"
    /\ \E ok \in BOOLEAN :
         gl' = IF ~ok \/ gl.closed THEN GoogleFails(gl)
               ELSE [logStep(gl, "8", "INFO") EXCEPT !.pc = "signin",
                                                     !.typedPassword = TRUE]
    /\ UNCHANGED <<isProcessing, currentBot, run, stop, wp, dl, sc, lr, settings, cs, fs, creds, presets>>

\* Step 8: clickNextButton and the 3 s pause; Google answers the password.
GoogleSignIn ==
    /\ gl.pc = "signin"
    /\ \E ok \in BOOLEAN, p \in Prompts :
         gl' = IF ~ok \/ gl.closed THEN GoogleFails(gl)
               ELSE [logStep(gl, "9", "INFO") EXCEPT !.pc = "twofa", !.prompt = p,
                                                     !.afterPassword = p]
    /\ UNCHANGED <<isProcessing, currentBot, run, stop, wp, dl, sc, lr, settings, cs, fs, creds, presets>>

\* Step 9: check2FARequired, the only check after the password step.
Google2FA ==
    /\ gl.pc = "twofa"
    /\ gl' = IF gl.closed THEN GoogleFails(gl)
             ELSE IF check2FARequired(gl) THEN GoogleManual(gl, "9")
             ELSE [logStep(gl, "10", "WAITING") EXCEPT !.pc = "redirect",
                                                       !.waitedRedirect = TRUE]
    /\ UNCHANGED <<isProcessing, currentBot, run, stop, wp, dl, sc, lr, settings, cs, fs, creds, presets>>

\* Step 10: waitForURL(/suno.com/) for 30 s, then the look at the URL.
GoogleRedirect ==
    /\ gl.pc = "redirect"
    /\ \E arrived \in BOOLEAN :
         gl' = IF arrived /\ ~gl.closed
               THEN [logStep(gl, "11", "SUCCESS") EXCEPT !.pc = "returned",
                                                         !.success = TRUE]
               ELSE GoogleFails(gl)
    /\ UNCHANGED <<isProcessing, currentBot, run, stop, wp, dl, sc, lr, settings, cs, fs, creds, presets>>

\* waitForManualLogin: waitForURL(/suno.com/) for 5 minutes; its timeout
\* error is caught by loginWithGoogle.
GoogleManualWait ==
    /\ gl.pc = "manual"
    /\ \E arrived \in BOOLEAN :
         gl' = IF arrived /\ ~gl.closed
               THEN [logStep(gl, "MANUAL", "SUCCESS") EXCEPT !.pc = "returned",
                                                             !.success = TRUE]
               ELSE GoogleFails(gl)
    /\ UNCHANGED <<isProcessing, currentBot, run, stop, wp, dl, sc, lr, settings, cs, fs, creds, presets>>

\* The browser window is closed during the login.
GoogleClose ==
    /\ gl.pc \notin {"off", "returned"}
    /\ ~gl.closed
    /\ gl' = [gl EXCEPT !.closed = TRUE]
    /\ UNCHANGED <<isProcessing, currentBot, run, stop, wp, dl, sc, lr, settings, cs, fs, creds, presets>>

\* A call loginWithGoogle(email, password); each of the two may be null.
InitGoogle ==
    /\ isProcessing = FALSE
    /\ currentBot = NoBot
    /\ creds = IdleCredentials
    /\ presets = IdlePresets
    /\ run = [r \in Runs |-> IdleRun]
    /\ stop = [pc |-> "idle", count |-> 0]
    /\ settings = DefaultSettings
    /\ cs = IdleStatusCheck
    /\ fs = IdleFillStyles
    /\ wp = IdlePoll
    /\ dl = IdleDownload
    /\ sc = IdleCreate
    /\ lr = IdleLocate
    /\ \E email \in BOOLEAN, password \in BOOLEAN :
         gl = [ pc |-> "open", email |-> email, password |-> password,
                prompt |-> "none", step |-> [step |-> "1", status |-> "INFO"],
                afterEmail |-> "none", afterPassword |-> "none", closed |-> FALSE,
                typedPassword |-> FALSE, waitedRedirect |-> FALSE,
                manual |-> FALSE, success |-> FALSE ]

NextGoogle ==
    \/ GoogleOpen
    \/ GoogleEmail
    \/ GoogleNext
    \/ GoogleDetect
    \/ GooglePassword
    \/ GoogleSignIn
    \/ Google2FA
    \/ GoogleRedirect
    \/ GoogleManualWait
    \/ GoogleClose

SpecGoogle == InitGoogle /\ [][NextGoogle]_vars

\* ------------------------------ SongCreator.fillStyles
\* A placeholder attribute is absent, or a text, of which the model keeps
\* the phrases (lower case) that the code looks for in it.
NoPlaceholder == [present |-> FALSE, phrases |-> {}]

Placeholder(phrases) == [present |-> TRUE, phrases |-> phrases]

\* 'Hip-hop, R&B, upbeat'
StylePlaceholder == Placeholder({"hip-hop", "r&b", "upbeat"})

\* 'Write some lyrics or leave empty for instrumental'
LyricsPlaceholder ==
    Placeholder({"write some lyrics", "leave empty for instrumental",
                 "lyric", "write some"})

\* a lyrics placeholder in other words, e.g. 'Enter your lyrics'
OtherLyricsPlaceholder == Placeholder({"lyric"})

\* a text with none of the phrases
PlainPlaceholder == Placeholder({})

\* The textareas a create page may show.  fillLyrics accepts as lyrics
\* field a textarea found by placeholder, by name or by test id, so the
\* lyrics field may have any placeholder; advanced marks a textarea nested
\* under the Advanced Options region.
Textareas ==
    [ role : {"lyrics"},
      placeholder : {LyricsPlaceholder, OtherLyricsPlaceholder, PlainPlaceholder,
                     NoPlaceholder},
      maxlength : {"1000", "none"},
      advanced : {FALSE} ]
    \cup
    [ role : {"styles"},
      placeholder : {StylePlaceholder, PlainPlaceholder, NoPlaceholder},
      maxlength : {"1000", "none"},
      advanced : {FALSE} ]
    \cup
    [ role : {"other"},
      placeholder : {PlainPlaceholder, NoPlaceholder},
      maxlength : {"1000", "none"},
      advanced : BOOLEAN ]

\* A page: at most one textarea of each role, in document order.
CreatePages ==
    { p \in UNION { [1..n -> Textareas] : n \in 0..3 } :
        \A i, j \in 1..Len(p) : i # j => p[i].role # p[j].role }

\* styleSelectors[k] applied to one textarea.
StyleSelectorMatches(k, t) ==
    CASE k = 1 -> "hip-hop" \in t.placeholder.phrases
      [] k = 2 -> "r&b" \in t.placeholder.phrases
      [] k = 3 -> "upbeat" \in t.placeholder.phrases
      [] k = 4 -> t.maxlength = "1000"
      [] k = 5 -> /\ "lyric" \notin t.placeholder.phrases
                  /\ "write some" \notin t.placeholder.phrases

\* The two skips of the primary loop.  The XPath ancestor::*[contains(.,
\* "Advanced Options")] counts every ancestor whose text contains the
\* words, the document body included: it is non-empty for every textarea
\* of a page that shows the words anywhere.
PrimaryAccepts(f, t) ==
    /\ ~( /\ t.placeholder.present
          /\ \/ "write some lyrics" \in t.placeholder.phrases
             \/ "leave empty for instrumental" \in t.placeholder.phrases )
    /\ ~f.advancedOptions

\* The least element of a non-empty set of positions.
First(S) == CHOOSE i \in S : \A j \in S : i <= j

StylesThrows(f, message) == [f EXCEPT !.pc = "threw", !.error = message]

\* One selector of the primary loop: the first matching textarea that is
\* not skipped becomes styleInput; an error inside is caught and the next
\* selector is tried.
StylesPrimary ==
    /\ fs.pc = "primary"
    /\ \E failed \in BOOLEAN :
         LET accepted == { i \in 1..Len(fs.page) :
                            /\ StyleSelectorMatches(fs.selector, fs.page[i])
                            /\ PrimaryAccepts(fs, fs.page[i]) }
         IN  fs' = IF ~failed /\ accepted # {}
                   THEN [fs EXCEPT !.pc = "type", !.styleInput = First(accepted),
                                   !.via = "primary"]
                   ELSE IF fs.selector < 5 THEN [fs EXCEPT !.selector = @ + 1]
                   ELSE [fs EXCEPT !.pc = "fallback"]
    /\ UNCHANGED <<isProcessing, currentBot, run, stop, wp, dl, sc, lr, settings, cs, gl, creds, presets>>

\* The fallback scan over all textareas: the first one with maxlength
\* "1000" decides when its placeholder is absent (null.toLowerCase()
\* throws a TypeError) or does not contain 'lyric' (it becomes styleInput).
StylesFallback ==
    /\ fs.pc = "fallback"
    /\ LET deciding == { i \in 1..Len(fs.page) :
                          /\ fs.page[i].maxlength = "1000"
                          /\ \/ ~fs.page[i].placeholder.present
                             \/ "lyric" \notin fs.page[i].placeholder.phrases }
       IN  fs' = IF deciding = {} THEN [fs EXCEPT !.pc = "type"]
                 ELSE IF ~fs.page[First(deciding)].placeholder.present
                 THEN StylesThrows(fs, "type_error")
                 ELSE [fs EXCEPT !.pc = "type", !.styleInput = First(deciding),
                                 !.via = "fallback"]
    /\ UNCHANGED <<isProcessing, currentBot, run, stop, wp, dl, sc, lr, settings, cs, gl, creds, presets>>

\* humanType(styleInput, style), or the error of a missing style field.
StylesType ==
    /\ fs.pc = "type"
    /\ \E typed \in BOOLEAN :
         fs' = IF fs.styleInput = 0 THEN StylesThrows(fs, "style_not_found")
               ELSE IF typed THEN [fs EXCEPT !.pc = "returned"]
               ELSE StylesThrows(fs, "type_failed")
    /\ UNCHANGED <<isProcessing, currentBot, run, stop, wp, dl, sc, lr, settings, cs, gl, creds, presets>>

\* A call fillStyles(style) on a create page that shows, or does not show,
\* the words 'Advanced Options'.
InitStyles ==
    /\ isProcessing = FALSE
    /\ currentBot = NoBot
    /\ creds = IdleCredentials
    /\ presets = IdlePresets
    /\ run = [r \in Runs |-> IdleRun]
    /\ stop = [pc |-> "idle", count |-> 0]
    /\ settings = DefaultSettings
    /\ cs = IdleStatusCheck
    /\ gl = IdleGoogleLogin
    /\ wp = IdlePoll
    /\ dl = IdleDownload
    /\ sc = IdleCreate
    /\ lr = IdleLocate
    /\ \E page \in CreatePages, advancedOptions \in BOOLEAN :
         /\ (\E i \in 1..Len(page) : page[i].advanced) => advancedOptions
         /\ fs = [ pc |-> "primary", page |-> page,
                   advancedOptions |-> advancedOptions, selector |-> 1,
                   styleInput |-> 0, via |-> "none", error |-> "none" ]

NextStyles ==
    \/ StylesPrimary
    \/ StylesFallback
    \/ StylesType

SpecStyles == InitStyles /\ [][NextStyles]_vars

\* ------------------- stored credentials: /api/settings, /api/credentials
\* The strings a request may carry as email or password; "" stands for
\* every falsy value (an absent field included).  Mask is the text
\* GET /api/settings sends in place of a password.
Mask == "********"
Emails == {"", "a@x.io", "nomail"}
Passwords == {"", "pw1", "pw2", Mask}
AuthMethodNames == {"google", "password"}

\* /^[^\s@]+@[^\s@]+\.[^\s@]+$/ of POST /api/credentials/save
ValidEmail(email) == email = "a@x.io"

\* DEFAULT_CONFIG of settings.js: authMethod and credentials
DefaultConfig ==
    [ authMethod |-> "google", credentials |-> [email |-> "", password |-> ""] ]

\* No .credentials.enc file / the file written by saveCredentials.
NoCredentialsFile == [exists |-> FALSE, email |-> "", password |-> "", savedAt |-> ""]

\* Mutant of SafeConfig: the configuration is sent as stored.
SafeConfigUnmasked(config) == config

\* GET /api/settings: safeConfig, the configuration with the password
\* replaced by the mask when there is one.
SafeConfig(config) ==
    [config EXCEPT !.credentials.password = IF @ # "" THEN Mask ELSE ""]

\* POST /api/settings: the settings.set calls the body leads to.
UpdatedConfig(config, body) ==
    LET a == IF body.authMethod # ""
             THEN [config EXCEPT !.authMethod = body.authMethod] ELSE config
        e == IF body.hasCredentials /\ body.credentials.email # ""
             THEN [a EXCEPT !.credentials.email = body.credentials.email] ELSE a
    IN  IF /\ body.hasCredentials
           /\ body.credentials.password # ""
           /\ body.credentials.password # Mask
        THEN [e EXCEPT !.credentials.password = body.credentials.password]
        ELSE e

\* GET /api/credentials/load: loadCredentials gives null without a file
\* and when the file cannot be decrypted; the response carries the email
\* and savedAt only.
LoadResponse(file, readable) ==
    IF file.exists /\ readable
    THEN [hasCredentials |-> TRUE, email |-> file.email, savedAt |-> file.savedAt]
    ELSE [hasCredentials |-> FALSE, email |-> "null", savedAt |-> "undefined"]

SettingsGet ==
    /\ creds.pc = "on"
    /\ creds' = [creds EXCEPT !.last = "get", !.settingsBody = SafeConfig(creds.config)]
    /\ UNCHANGED <<isProcessing, currentBot, run, stop, wp, dl, sc, lr, settings, cs, gl, fs, presets>>

SettingsPost ==
    /\ creds.pc = "on"
    /\ \E authMethod \in AuthMethodNames \cup {""}, hasCredentials \in BOOLEAN,
          email \in Emails, password \in Passwords :
         creds' = [creds EXCEPT
                     !.last = "post",
                     !.config = UpdatedConfig(@,
                         [ authMethod |-> authMethod, hasCredentials |-> hasCredentials,
                           credentials |-> [email |-> email, password |-> password] ])]
    /\ UNCHANGED <<isProcessing, currentBot, run, stop, wp, dl, sc, lr, settings, cs, gl, fs, presets>>

\* The client sends the body it got from GET /api/settings back to
\* POST /api/settings.
SettingsPostBack ==
    /\ creds.pc = "on"
    /\ creds.settingsBody.authMethod # "none"
    /\ creds' = [creds EXCEPT
                   !.last = "postback",
                   !.config = UpdatedConfig(@,
                       [ authMethod |-> creds.settingsBody.authMethod,
                         hasCredentials |-> TRUE,
                         credentials |-> creds.settingsBody.credentials ])]
    /\ UNCHANGED <<isProcessing, currentBot, run, stop, wp, dl, sc, lr, settings, cs, gl, fs, presets>>

\* POST /api/credentials/save: 400 without email or password or with an
\* email the pattern refuses; otherwise the file is written.
CredentialsSave ==
    /\ creds.pc = "on"
    /\ \E email \in Emails, password \in Passwords, savedAt \in {"t1", "t2"} :
         creds' = IF email = "" \/ password = "" \/ ~ValidEmail(email)
                  THEN [creds EXCEPT !.last = "save_refused"]
                  ELSE [creds EXCEPT !.last = "save",
                                     !.file = [ exists |-> TRUE, email |-> email,
                                                password |-> password,
                                                savedAt |-> savedAt ]]
    /\ UNCHANGED <<isProcessing, currentBot, run, stop, wp, dl, sc, lr, settings, cs, gl, fs, presets>>

CredentialsLoad ==
    /\ creds.pc = "on"
    /\ \E readable \in BOOLEAN :
         creds' = [creds EXCEPT !.last = "load", !.readable = readable,
                                !.loadBody = LoadResponse(creds.file, readable)]
    /\ UNCHANGED <<isProcessing, currentBot, run, stop, wp, dl, sc, lr, settings, cs, gl, fs, presets>>

\* DELETE /api/credentials/clear
CredentialsClear ==
    /\ creds.pc = "on"
    /\ creds' = [creds EXCEPT !.last = "clear", !.file = NoCredentialsFile]
    /\ UNCHANGED <<isProcessing, currentBot, run, stop, wp, dl, sc, lr, settings, cs, gl, fs, presets>>

\* A fresh installation: the default configuration, no credentials file,
\* no response received yet.
InitCredentials ==
    /\ isProcessing = FALSE
    /\ currentBot = NoBot
    /\ run = [r \in Runs |-> IdleRun]
    /\ stop = [pc |-> "idle", count |-> 0]
    /\ settings = DefaultSettings
    /\ cs = IdleStatusCheck
    /\ gl = IdleGoogleLogin
    /\ fs = IdleFillStyles
    /\ wp = IdlePoll
    /\ dl = IdleDownload
    /\ sc = IdleCreate
    /\ lr = IdleLocate
    /\ presets = IdlePresets
    /\ creds = [ pc |-> "on", config |-> DefaultConfig, file |-> NoCredentialsFile,
                 last |-> "none", readable |-> TRUE,
                 settingsBody |-> [ authMethod |-> "none",
                                    credentials |-> [email |-> "", password |-> ""] ],
                 loadBody |-> LoadResponse(NoCredentialsFile, TRUE) ]

NextCredentials ==
    \/ SettingsGet
    \/ SettingsPost
    \/ SettingsPostBack
    \/ CredentialsSave
    \/ CredentialsLoad
    \/ CredentialsClear

SpecCredentials == InitCredentials /\ [][NextCredentials]_vars

\* ------------------------------------------------- StylePresetManager
MaxPresets == 2     \* presets in the list
MaxUsage == 1       \* largest usageCount followed

\* Names of presets; "" stands for a missing name.  The ids
\* crypto.randomBytes(8) produces, taken to be new each time; the ids an
\* import file or a PUT body may carry ("" is a preset without id).
Names == {"Lofi", "Rock"}
RandomIds == {"r1", "r2", "r3"}
DataIds == {"", "lofi-01"}
PresetIds == RandomIds \cup DataIds

\* getDefaultPresets(), its first entry
getDefaultPresets ==
    << [id |-> "lofi-01", name |-> "Lofi", favorite |-> FALSE, usageCount |-> 0] >>

IdsOf(list) == { list[i].id : i \in 1..Len(list) }
NamesOf(list) == { list[i].name : i \in 1..Len(list) }

\* crypto.randomBytes(8).toString('hex')
FreshId(list) == CHOOSE id \in RandomIds : id \notin IdsOf(list)

\* this.presets.findIndex(p => p.id === id), 0 for -1
findIndex(list, id) ==
    IF id \in IdsOf(list)
    THEN CHOOSE i \in 1..Len(list) :
           list[i].id = id /\ \A j \in 1..(i - 1) : list[j].id # id
    ELSE 0

createPreset(list, name) ==
    Append(list, [id |-> FreshId(list), name |-> name, favorite |-> FALSE,
                  usageCount |-> 0])

\* {...this.presets[index], ...updates}: every property of updates
\* replaces the preset's; "keep" is a property updates does not have.
updatePreset(list, index, updates) ==
    [list EXCEPT ![index] =
        [@ EXCEPT !.id = IF updates.id = "keep" THEN @ ELSE updates.id,
                  !.name = IF updates.name = "keep" THEN @ ELSE updates.name]]

\* this.presets.splice(index, 1)
deletePreset(list, index) ==
    SubSeq(list, 1, index - 1) \o SubSeq(list, index + 1, Len(list))

\* data.presets.filter(p => !existingNames.has(p.name))
RECURSIVE NewPresets(_, _)
NewPresets(data, existingNames) ==
    IF data = <<>> THEN <<>>
    ELSE (IF Head(data).name \in existingNames THEN <<>> ELSE <<Head(data)>>)
         \o NewPresets(Tail(data), existingNames)

\* newPresets.forEach(p => { p.id = crypto.randomBytes(8)... }) and
\* this.presets.push(...newPresets)
RECURSIVE PushImported(_, _)
PushImported(list, newPresets) ==
    IF newPresets = <<>> THEN list
    ELSE PushImported(Append(list, [Head(newPresets) EXCEPT !.id = FreshId(list)]),
                      Tail(newPresets))

importPresets(list, data, merge) ==
    IF merge THEN PushImported(list, NewPresets(data, NamesOf(list))) ELSE data

\* The presets of an import file.
ImportFiles ==
    UNION { [1..n -> [id : DataIds, name : Names, favorite : {FALSE},
                      usageCount : {0}]] : n \in 0..2 }

\* POST /api/style-presets
PresetCreate ==
    /\ presets.pc = "on"
    /\ \E name \in Names \cup {""} :
         IF name = ""
         THEN presets' = [presets EXCEPT !.last = "create_refused"]
         ELSE /\ Len(presets.list) < MaxPresets
              /\ presets' = [presets EXCEPT !.last = "create",
                                            !.list = createPreset(@, name)]
    /\ UNCHANGED <<isProcessing, currentBot, run, stop, wp, dl, sc, lr, settings, cs, gl, fs, creds>>

\* PUT /api/style-presets/:id with req.body as the updates
PresetUpdate ==
    /\ presets.pc = "on"
    /\ \E id \in PresetIds, newId \in PresetIds \cup {"keep"},
          newName \in Names \cup {"keep"} :
         LET index == findIndex(presets.list, id) IN
         presets' = IF index = 0
                    THEN [presets EXCEPT !.last = "update_failed"]
                    ELSE [presets EXCEPT
                            !.last = "update",
                            !.list = updatePreset(@, index,
                                                  [id |-> newId, name |-> newName])]
    /\ UNCHANGED <<isProcessing, currentBot, run, stop, wp, dl, sc, lr, settings, cs, gl, fs, creds>>

\* DELETE /api/style-presets/:id
PresetDelete ==
    /\ presets.pc = "on"
    /\ \E id \in PresetIds :
         LET index == findIndex(presets.list, id) IN
         presets' = IF index = 0
                    THEN [presets EXCEPT !.last = "delete_failed"]
                    ELSE [presets EXCEPT !.last = "delete",
                                         !.list = deletePreset(@, index)]
    /\ UNCHANGED <<isProcessing, currentBot, run, stop, wp, dl, sc, lr, settings, cs, gl, fs, creds>>

\* POST /api/style-presets/:id/favorite: toggleFavorite, nothing for an
\* unknown id
PresetFavorite ==
    /\ presets.pc = "on"
    /\ \E id \in PresetIds :
         LET index == findIndex(presets.list, id) IN
         presets' = IF index = 0
                    THEN [presets EXCEPT !.last = "favorite"]
                    ELSE [presets EXCEPT !.last = "favorite",
                                         !.list[index].favorite = ~@]
    /\ UNCHANGED <<isProcessing, currentBot, run, stop, wp, dl, sc, lr, settings, cs, gl, fs, creds>>

\* POST /api/style-presets/:id/use: incrementUsage, nothing for an unknown
\* id
PresetUse ==
    /\ presets.pc = "on"
    /\ \E id \in PresetIds :
         LET index == findIndex(presets.list, id) IN
         IF index = 0
         THEN presets' = [presets EXCEPT !.last = "use"]
         ELSE /\ presets.list[index].usageCount < MaxUsage
              /\ presets' = [presets EXCEPT !.last = "use",
                                            !.list[index].usageCount = @ + 1]
    /\ UNCHANGED <<isProcessing, currentBot, run, stop, wp, dl, sc, lr, settings, cs, gl, fs, creds>>

\* POST /api/style-presets/import: importPresets(data, merge !== false);
\* data without presets throws 'Invalid import data'.
PresetImport ==
    /\ presets.pc = "on"
    /\ \E valid \in BOOLEAN, data \in ImportFiles, merge \in BOOLEAN :
         IF ~valid
         THEN presets' = [presets EXCEPT !.last = "import_failed"]
         ELSE /\ merge => Len(presets.list) + Len(data) <= MaxPresets
              /\ presets' = [presets EXCEPT
                               !.last = IF merge THEN "import_merge"
                                        ELSE "import_replace",
                               !.list = importPresets(@, data, merge)]
    /\ UNCHANGED <<isProcessing, currentBot, run, stop, wp, dl, sc, lr, settings, cs, gl, fs, creds>>

\* The manager after load() on a fresh installation.
InitPresets ==
    /\ isProcessing = FALSE
    /\ currentBot = NoBot
    /\ run = [r \in Runs |-> IdleRun]
    /\ stop = [pc |-> "idle", count |-> 0]
    /\ settings = DefaultSettings
    /\ cs = IdleStatusCheck
    /\ gl = IdleGoogleLogin
    /\ fs = IdleFillStyles
    /\ wp = IdlePoll
    /\ dl = IdleDownload
    /\ sc = IdleCreate
    /\ lr = IdleLocate
    /\ creds = IdleCredentials
    /\ presets = [ pc |-> "on", list |-> getDefaultPresets, last |-> "none" ]

NextPresets ==
    \/ PresetCreate
    \/ PresetUpdate
    \/ PresetDelete
    \/ PresetFavorite
    \/ PresetUse
    \/ PresetImport

SpecPresets == InitPresets /\ [][NextPresets]_vars

\* ==================================================================
\* Claims about the start / stop handlers and the orchestrator
\* ==================================================================
StepsOfASong == {"submit", "wait", "download"}
FailCount(rec) == rec.createFails + rec.otherFails

\* C1: every flow that launches a browser (test-auth, create-song,
\* batch-create) ends with the browser context closed, on the success path
\* and on every failure path, also when initialize() or login() throws.
C1_BrowserClosedOnEveryExit ==
    \A r \in Runs : run[r].pc = "done" => run[r].ctx # "open"

\* C2: in a create-song or batch run during which no stop is issued, an
\* error thrown at the submit, wait or download step leads to exactly one
\* call of bot.close() for that run.
C2_CloseExactlyOnce ==
    \A r \in Runs :
        ( /\ run[r].pc = "done"
          /\ run[r].kind \in {"create", "batch"}
          /\ run[r].stopf = "none"
          /\ run[r].threwAt \in StepsOfASong )
        => run[r].closeCalls = 1

C2_Witness ==
    \E r \in Runs :
        /\ run[r].pc = "done"
        /\ run[r].kind = "create"
        /\ run[r].stopf = "none"
        /\ run[r].threwAt = "download"
        /\ run[r].closeCalls = 1

\* C3: in a batch of N songs whose login returned, a song failing inside
\* createSong does not end the loop: createSong is attempted for every
\* song, and when exactly that one song failed the final batch_complete
\* event reports success = N-1 and failed = 1.
C3_BatchContinuesAfterFailure ==
    \A r \in Runs :
        ( /\ run[r].pc = "done"
          /\ run[r].kind = "batch"
          /\ run[r].auth # "none"
          /\ run[r].createFails >= 1 )
        => /\ run[r].createCalls = run[r].n
           /\ (run[r].createFails = 1 /\ run[r].otherFails = 0)
                 => (run[r].successCount = run[r].n - 1 /\ FailCount(run[r]) = 1)

C3_Witness ==
    \E r \in Runs :
        /\ run[r].pc = "done"
        /\ run[r].kind = "batch"
        /\ run[r].auth = "ok"
        /\ run[r].n = MaxSongs
        /\ run[r].createFails = 1
        /\ run[r].otherFails = 0
        /\ run[r].createCalls = MaxSongs
        /\ run[r].successCount = MaxSongs - 1

\* C4: without any stop request, at most one start request is accepted at
\* a time; no second run is alive while an accepted run has not finished.
C4_AtMostOneAcceptedRun ==
    stop.count = 0 => Cardinality({r \in Runs : Active(r)}) <= 1

\* C5: once a stop request has answered success while a run was active,
\* that run's browser is closed and the run calls createSong no more.
C5_StoppedRunIsClosed ==
    [][ \A r \in Runs :
          run'[r].stopf = "acked"
          => /\ run'[r].ctx # "open"
             /\ run[r].stopf = "acked" => run'[r].createCalls = run[r].createCalls ]_vars

\* C6: 'authenticated' is emitted and createSong is invoked only after an
\* authentication that really succeeded.
C6_AuthenticatedOnlyAfterRealLogin ==
    \A r \in Runs :
        /\ run[r].auth # "bad"
        /\ run[r].createCalls > 0 => run[r].auth = "ok"

\* C7: the download of a job starts only after the job's generation has
\* been seen complete on the listing, never merely because the wait elapsed.
C7_DownloadOnlyAfterCompletion ==
    \A r \in Runs : run[r].pc = "download" => run[r].gen = "complete"

\* C9: in a batch, a song whose listing entry did not leave 'generating'
\* within the wait is counted as failed, never as a success.
C9_NeverCompletedSongFails ==
    [][ \A r \in Runs :
          ( /\ run[r].kind = "batch"
            /\ run[r].pc = "download"
            /\ run[r].gen # "complete"
            /\ run'[r].pc # "download" )
          => /\ run'[r].successCount = run[r].successCount
             /\ FailCount(run'[r]) = FailCount(run[r]) + 1 ]_vars

\* ==================================================================
\* Claims about the completion poller
\* ==================================================================
\* C8: a call whose status checks all report 'not complete' ends with the
\* timed-out error exactly when the elapsed time reaches maxWait, neither
\* earlier nor later.
C8_TimedOutExactlyAtMaxWait ==
    (wp.pc = "failed" /\ wp.error = "timed_out") => wp.now = wp.maxWait

\* ==================================================================
\* Claims about the artifact retriever
\* ==================================================================
\* C10: downloadBothSongs returns only a result with exactly 2 artifacts,
\* each of positive size; it never returns after a zero-byte file has been
\* saved for either version.
C10_TwoNonEmptyArtifactsOrThrow ==
    dl.pc = "returned"
    => /\ Len(dl.downloads) = 2
       /\ dl.count = 2
       /\ \A k \in 1..Len(dl.downloads) : dl.downloads[k].size > 0
       /\ \A k \in 1..Len(dl.files) : dl.files[k] > 0

C10_Witness ==
    /\ dl.pc = "returned"
    /\ Len(dl.downloads) = 2
    /\ dl.downloads[1].version = 1
    /\ dl.downloads[2].version = 2

\* ==================================================================
\* Claims about song creation
\* ==================================================================
OtherCreationErrors ==
    {"navigation", "page_closed", "lyrics_not_found", "style_not_found",
     "type_failed", "create_not_found"}

\* C11: when a detected CAPTCHA is not resolved within the 5-minute bound,
\* createSong ends with the challenge-timeout error instead of continuing.
C11_ChallengeTimeoutPropagates ==
    sc.timedOut => (sc.pc = "threw" /\ sc.error = "captcha_timeout")

\* C12: when a CAPTCHA is visible right after the Create click and a human
\* resolves it, createSong does not fail and the Create button has been
\* clicked exactly once.
C12_ResolvedChallengeResumesOnce ==
    (sc.detected /\ sc.solved) => (sc.pc # "threw" /\ sc.clicks = 1)

C12_Witness ==
    /\ sc.pc = "returned"
    /\ sc.detected
    /\ sc.solved
    /\ sc.cw >= 2 * CreateCaptchaPoll
    /\ sc.clicks = 1
    /\ sc.status = "song_created"

C18_RateLimitHasDistinctStatus ==
    (sc.pc = "threw" /\ sc.error = "rate_limited")
    => \A e \in OtherCreationErrors : CreationStatus(e) # sc.status

\* ==================================================================
\* Claims about login and the life cycle of a run
\* ==================================================================
\* C13: a manual Google login that is not completed within its 5 minutes
\* makes SunoBot.login fail: the run emits no 'authenticated', attempts no
\* song, and has released its browser when it is over.
C13_LoginTimeoutAbortsRun ==
    \A r \in Runs :
        run[r].loginTimedOut
        => /\ run[r].auth = "none"
           /\ run[r].createCalls = 0
           /\ run[r].pc = "done" => run[r].ctx # "open"

\* C16: within one run the browser is launched at most once and login is
\* attempted at most once, both before the first createSong; neither is
\* repeated after a failed login or a failed song.
C16_LaunchAndLoginOnce ==
    [][ \A r \in Runs :
          /\ run'[r].launches <= 1
          /\ run'[r].logins <= 1
          /\ ( run'[r].launches > run[r].launches \/ run'[r].logins > run[r].logins )
               => run[r].createCalls = 0 ]_vars

C16_Witness ==
    \E r \in Runs :
        /\ run[r].pc = "done"
        /\ run[r].kind = "batch"
        /\ run[r].n = MaxSongs
        /\ run[r].createCalls = MaxSongs
        /\ FailCount(run[r]) >= 1
        /\ run[r].launches = 1
        /\ run[r].logins = 1

\* text contains part as a contiguous piece
Contains(text, part) ==
    \E k \in 0..(Len(text) - Len(part)) : SubSeq(text, k + 1, k + Len(part)) = part

\* A create-song run that is over, in which no step failed and no stop
\* request arrived.
CleanCreateRun(rec) ==
    /\ rec.pc = "done"
    /\ rec.kind = "create"
    /\ rec.threwAt = "none"
    /\ rec.stopf = "none"

\* C15 as stated: such a run of R rounds reports exactly 2*R artifacts,
\* v1 and v2 of every round under file names containing the title, and the
\* last status event is 'complete'.
C15_ArtifactsNamedByTitle ==
    \A r \in Runs :
        CleanCreateRun(run[r])
        => /\ TotalDownloadCount(run[r]) = 2 * run[r].n
           /\ run[r].lastStatus = "complete"
           /\ \A f \in RoundFiles(run[r]) : Contains(f, run[r].title)

\* C15, amended: the file names contain the sanitized title (invalid
\* characters replaced by '-', whitespace runs by '_'), which is the title
\* itself when it has neither.
C15_ArtifactsNamedBySanitizedTitle ==
    \A r \in Runs :
        CleanCreateRun(run[r])
        => /\ TotalDownloadCount(run[r]) = 2 * run[r].n
           /\ run[r].lastStatus = "complete"
           /\ Cardinality(RoundFiles(run[r])) = 2
           /\ \A f \in RoundFiles(run[r]) :
                /\ Contains(f, sanitizeFilename(run[r].title))
                /\ (sanitizeFilename(run[r].title) = run[r].title
                      => Contains(f, run[r].title))

C15_Witness ==
    \E r \in Runs :
        /\ CleanCreateRun(run[r])
        /\ run[r].n = MaxSongs
        /\ run[r].title = <<"M", "y", " ", " ", "S", "o", "n", "g">>
        /\ sanitizeFilename(run[r].title) = <<"M", "y", "_", "S", "o", "n", "g">>
        /\ TotalDownloadCount(run[r]) = 2 * MaxSongs
        /\ run[r].lastStatus = "complete"

\* ==================================================================
\* Claims about request validation
\* ==================================================================
\* value is an integer of 1..50: a number, or its decimal text
CountInRange(value) ==
    /\ value.json \in {"number", "string"}
    /\ value.text # <<>>
    /\ DigitPrefix(value.text) = value.text
    /\ DecimalValue(value.text) \in 1..50

\* C20: a start request whose other fields are valid starts a run only
\* when the supplied numberOfRounds / numberOfSongs is an integer of
\* 1..50; with any other value it is answered 400 and launches no browser.
C20_OnlyCountsInRangeStartARun ==
    \A r \in Runs :
        (run[r].fieldsOk /\ run[r].http # 0)
        => IF CountInRange(run[r].supplied)
           THEN run[r].http = 200
           ELSE run[r].http = 400 /\ run[r].launches = 0

\* ==================================================================
\* Claims about the selector-fallback routines
\* ==================================================================
\* C17: when no candidate selector of a routine matches a visible (and
\* enabled) element, the routine ends in its not-found outcome, the
\* 'Could not find ...' error or the tolerated absence of an optional
\* role, without having clicked or typed and without any other error.
C17_NotFoundIsTheOnlyOutcome ==
    (lr.pc = "ended" /\ lr.visible = {})
    => /\ lr.outcome = (IF Optional(lr.routine) THEN "absent_tolerated"
                                                ELSE "not_found_error")
       /\ ~lr.clicked
       /\ ~lr.typed

\* ==================================================================
\* Claims about the order of the two downloads
\* ==================================================================
\* C19: downloadSingleSong for version 2 (listing index 1) starts only
\* after version 1 (index 0) has been saved and verified and the fixed
\* delay has elapsed; the versions are attempted one after the other, each
\* at most once; when version 1 fails version 2 is not attempted.
C19_SecondVersionAfterFirst ==
    /\ dl.pc # "off" => dl.attempts \in {<<1>>, <<1, 2>>}
    /\ (dl.pc # "off" /\ dl.attempts = <<1, 2>>)
         => /\ Len(dl.downloads) >= 1
            /\ dl.downloads[1].version = 1
            /\ dl.downloads[1].size > 0
            /\ dl.gap = DownloadDelay
            /\ dl.songIndex = 1
    /\ (dl.pc = "threw" /\ Len(dl.downloads) = 0) => dl.attempts = <<1>>

C19_Witness ==
    /\ dl.pc = "returned"
    /\ dl.attempts = <<1, 2>>
    /\ dl.gap = DownloadDelay
    /\ Len(dl.downloads) = 2

\* ==================================================================
\* Claims about the settings
\* ==================================================================
\* C21: once the settings form has been saved with a wait time of W
\* minutes, the stored suno.maxWaitMinutes is W and suno.maxWaitTime is
\* W minutes in milliseconds, and a create-song run that loads its
\* configuration afterwards waits W minutes per round.
C21_SavedWaitTimeIsUsed ==
    [][ /\ settings'.saved # 0
             => /\ settings'.maxWaitMinutes = settings'.saved
                /\ settings'.maxWaitTime = settings'.saved * 60 * 1000
        /\ \A r \in Runs :
             ( /\ run[r].kind = "create"
               /\ run[r].pc = "load"
               /\ run'[r].pc = "launch"
               /\ settings.saved # 0 )
             => run'[r].waitMinutes = settings.saved ]_vars

\* ==================================================================
\* Claims about the two globals under concurrent requests
\* ==================================================================
\* C22: while an accepted run has not finished its cleanup, isProcessing
\* is true, under every interleaving of start requests, run completions
\* and /api/stop calls.
C22_ProcessingWhileRunAlive ==
    \A r \in Runs : Active(r) => isProcessing

\* C23: the cleanup of a run only affects that run: a step in which a run
\* finishes leaves isProcessing, and a currentBot that refers to another
\* run, as they are while a different run is active; and whenever a
\* create-song or batch run has an open browser, currentBot refers to that
\* run's bot.
C23_CleanupTouchesOwnRunOnly ==
    [][ /\ \A q, r \in Runs :
             ( /\ q # r
               /\ Active(q)
               /\ run'[q].pc \in {"idle", "done"}
               /\ Active(r)
               /\ run'[r] = run[r] )
             => /\ isProcessing' = isProcessing
                /\ currentBot = r => currentBot' = r
        /\ \A r \in Runs :
             ( /\ run'[r].kind \in {"create", "batch"}
               /\ run'[r].ctx = "open" )
             => currentBot' = r ]_vars

\* C24: every accepted run eventually leaves isProcessing = false and
\* currentBot = null, whatever step fails, bot.close() during the cleanup
\* included.
C24_RunEventuallyUnlocks ==
    (\E r \in Runs : Active(r)) ~> (~isProcessing /\ currentBot = NoBot)

\* ==================================================================
\* Claims about waiting for a human
\* ==================================================================
\* The statuses SunoBot.updateStatus hands to the status callback in the
\* course of a run without incident.
ProgressStatuses ==
    { "loading_config", "initializing_browser", "authenticating", "authenticated",
      "creating_song", "song_created", "waiting_for_generation",
      "waiting_for_completion", "song_completed", "downloading",
      "download_complete", "round_complete", "complete" }

\* C25: SongCreator.waitForCaptchaSolution returns success (an iteration
\* that has slept and then leaves the wait) only in a state where no
\* challenge marker is visible on the page any more.
C25_ResumesOnlyWithoutMarker ==
    [][ ( /\ sc.pc = "captchawait"
          /\ sc'.pc # "captchawait"
          /\ sc'.cw = sc.cw + CreateCaptchaPoll )
        => sc'.challenge = {} ]_vars

\* ==================================================================
\* Claims about the completion check
\* ==================================================================
\* C26: checkSongStatus reports completion only for a row that has no
\* generating row above it: it never reports completion because an older
\* row further down is complete while a row above it still shows a
\* generating indicator.
C26_CompletionOfTheMostRecentJob ==
    (cs.pc = "returned" /\ cs.result)
        => /\ cs.listing[cs.songIndex] = "complete"
           /\ \A j \in 1..(cs.songIndex - 1) : cs.listing[j] # "generating"

\* ==================================================================
\* Claims about the scripted Google login
\* ==================================================================
\* C27: when a 2FA prompt or an automation warning is visible after the
\* email step or after the password step, the login enters
\* waitForManualLogin: the password is never typed past a prompt shown
\* after the email step, and the redirect is never waited for past a
\* prompt shown after the password step.
C27_PromptSwitchesToManual ==
    /\ gl.pc # "off" /\ gl.typedPassword => gl.afterEmail = "none"
    /\ gl.pc # "off" /\ gl.waitedRedirect => gl.afterPassword = "none"

\* C28: whenever createSong starts waiting for a human to resolve a
\* challenge detected after the submit, the status delivered last to the
\* status callback is not one of the ordinary progress statuses.
C28_HumanWaitIsAnnounced ==
    sc.pc = "captchawait" => sc.status \notin ProgressStatuses

\* ==================================================================
\* Claims about the style field
\* ==================================================================
\* C29: fillStyles never types the style into the lyrics textarea nor
\* into a textarea nested under the Advanced Options region, whether the
\* element was chosen by the primary selector loop or by the fallback
\* scan.
C29_StyleGoesToTheStyleField ==
    fs.pc = "returned"
        => /\ fs.page[fs.styleInput].role # "lyrics"
           /\ ~fs.page[fs.styleInput].advanced

\* ==================================================================
\* Claims about the pace of a batch
\* ==================================================================
\* C30: in a batch the createSong call of song i+1 is issued only when
\* the 10-second delay after song i has elapsed, whether song i was
\* downloaded or failed.
C30_DelayBetweenSubmissions ==
    [][ \A r \in Runs :
          ( /\ run[r].kind = "batch"
            /\ run[r].i >= 1
            /\ run'[r].pc = "create"
            /\ run'[r].i = run[r].i + 1 )
          => run[r].pc = "gap" ]_vars

\* ==================================================================
\* Claims about the saved files
\* ==================================================================
\* C31: every artifact of a create-song run or of a batch run, whatever
\* the preset name, is saved to a path that is a file directly inside the
\* configured download directory.
C31_ArtifactsInsideDownloadDirectory ==
    \A r \in Runs :
        \A path \in SavedPaths(run[r]) :
            /\ Len(path) = Len(DownloadDirectory) + 1
            /\ SubSeq(path, 1, Len(DownloadDirectory)) = DownloadDirectory

\* ==================================================================
\* Claims about a page closed under the poller
\* ==================================================================
\* C32: when the page is closed at the start of a poll iteration or
\* during a poll sleep, the step waitForSongCompletion takes there ends
\* the call with an error; with a closed page no status check or
\* challenge wait is started, and the call never returns 'complete'.
C32_ClosedPageEndsThePoll ==
    [][ /\ ( /\ wp.pc \in {"head", "sleep", "catchsleep"}
             /\ wp.closed
             /\ wp'.pc # wp.pc )
           => (wp'.pc = "failed" /\ wp'.error # "none")
        /\ (wp.closed /\ wp'.pc # wp.pc) => wp'.pc \notin {"status", "captcha"}
        /\ wp'.pc = "completed" => ~wp'.closed ]_vars

C32_Witness ==
    /\ wp.pc = "failed"
    /\ wp.closed
    /\ wp.error = "browser_closed"
    /\ wp.now > 0

\* C33: in every selector-fallback routine the candidates whose element is
\* acted on are at most one, the earliest candidate in list order that is
\* visible (and enabled, for clickNextButton and clickCreate): no later
\* candidate is used while an earlier one qualifies, and no visible but
\* disabled button is clicked.
Qualifying(l) ==
    { k \in l.visible : ChecksEnabled(l.routine) => k \notin l.disabled }

C33_EarliestQualifyingCandidate ==
    lr.pc # "off" =>
        /\ \A k \in lr.used :
               /\ k \in Qualifying(lr)
               /\ \A j \in Qualifying(lr) : k <= j
        /\ ChecksEnabled(lr.routine) => lr.used \cap lr.disabled = {}

\* C34: once 'stopped' has been broadcast for a run, no further status
\* event of that run ('failed', 'error', 'batch_song_error',
\* 'batch_progress', 'batch_complete', ...) is broadcast.
C34_NoStatusAfterStopped ==
    [][ \A r \in Runs :
          (run[r].obs /\ run[r].stopf = "acked" /\ run[r].lastStatus = "stopped")
              => run'[r].lastStatus = "stopped" ]_vars

\* C36: in every state of a batch successCount + failCount is at most the
\* number of songs requested, and the batch_complete event reports
\* success + failed = total.
C36_BatchCountsAddUp ==
    \A r \in Runs :
        (run[r].obs /\ run[r].kind = "batch") =>
            /\ run[r].n # NaN => run[r].successCount + FailCount(run[r]) <= run[r].n
            /\ run[r].lastStatus = "batch_complete"
                   => run[r].successCount + FailCount(run[r]) = run[r].n

\* C35: for every accepted run (create-song, batch-create, test-auth):
\* once the handler has finished and the server has reset isProcessing, a
\* connected client that handled all status events of the run in order
\* has state.isProcessing = false and its Create button visible and
\* enabled.
C35_ClientUnlockedWithTheServer ==
    \A r \in Runs :
        (run[r].obs /\ run[r].pc = "done" /\ ~isProcessing)
            => (~run[r].client.isProcessing /\ run[r].client.createBtn = "enabled")

\* C37: no response reveals a stored password.  The body of
\* GET /api/settings and that of GET /api/credentials/load are what they
\* would be with any other non-empty password stored, and posting the body
\* of GET /api/settings back to POST /api/settings leaves the stored
\* password as it was.
C37_ResponsesIndependentOfPassword ==
    [][ /\ (creds.pc = "on" /\ creds'.last = "get" /\ creds.config.credentials.password # "")
           => \A p \in Passwords \ {""} :
                creds'.settingsBody
                    = SafeConfig([creds.config EXCEPT !.credentials.password = p])
        /\ (creds.pc = "on" /\ creds'.last = "load")
           => \A p \in Passwords \ {""} :
                creds'.loadBody
                    = LoadResponse([creds.file EXCEPT !.password = p], creds'.readable)
        /\ (creds.pc = "on" /\ creds'.last = "postback")
           => creds'.config.credentials.password = creds.config.credentials.password
      ]_vars

C37_Witness ==
    /\ creds.pc = "on"
    /\ creds.last = "postback"
    /\ creds.config.credentials.password = "pw2"
    /\ creds.settingsBody.credentials.password = Mask
    /\ creds.file.exists
    /\ creds.file.password = "pw1"
    /\ creds.loadBody.hasCredentials

\* C38: importPresets(data, merge = true) introduces no duplicate by
\* name: the presets that existed before are unchanged, and no preset the
\* import added shares its name with any other preset of the list.
C38_MergeAddsNoDuplicateName ==
    [][ (presets.pc = "on" /\ presets'.last = "import_merge") =>
          LET old == presets.list
              new == presets'.list
          IN  /\ Len(new) >= Len(old)
              /\ SubSeq(new, 1, Len(old)) = old
              /\ \A i \in (Len(old) + 1)..Len(new) :
                   \A j \in 1..Len(new) : i # j => new[i].name # new[j].name ]_vars

\* C39: after any sequence of preset operations every preset has an id and
\* the ids are pairwise distinct; updatePreset leaves the id of its preset
\* as it was; updatePreset / deletePreset on an unknown id fail and leave
\* the list unchanged.
C39_PresetIdsStayUnique ==
    [][ presets.pc = "on" =>
          LET old == presets.list
              new == presets'.list
          IN  /\ \A i \in 1..Len(new) : new[i].id # ""
              /\ \A i, j \in 1..Len(new) : i # j => new[i].id # new[j].id
              /\ presets'.last = "update"
                    => /\ Len(new) = Len(old)
                       /\ \A i \in 1..Len(new) : new[i].id = old[i].id
              /\ presets'.last \in {"update_failed", "delete_failed"}
                    => new = old ]_vars

====
